---- MODULE Spec2Model ----
(***************************************************************************)
(* Little Navmap: the online network download state machine of            *)
(* OnlinedataController (src/unnamed/part_000) together with the parts of  *)
(* its collaborators (HttpDownloader, OnlinedataManager, OptionData, the   *)
(* Qt timers) that the controller's handlers read and write.               *)
(*                                                                         *)
(* The controller runs in one event loop.  Every action below is one       *)
(* event delivered by that loop and models the whole handler, including    *)
(* the calls that handler makes.  Handlers are written as operators on a   *)
(* record c holding the complete state, so that a handler calling another  *)
(* handler is function application.                                        *)
(***************************************************************************)
EXTENDS Integers, Sequences, FiniteSets, TLC

VARIABLES
  currentState,               \* OnlinedataController::currentState
  whazzupUrlFromStatus,       \* OnlinedataController::whazzupUrlFromStatus
  lastUpdateTime,             \* QDateTime fields of the controller, in seconds
  lastUpdateTimeTransceivers,
  lastServerDownload,
  clientCallsignAndPosMap,    \* callsign -> position, set of <<callsign, pos>>
  aircraftCache,              \* [rect, list]: SimpleRectCache of online aircraft
  simulatorAiRegistrations,   \* registration -> position, set of <<reg, pos>>
  simulatorAiOrder,           \* registrations in the order simulatorAiRegistrations got them
  timerActive,                \* downloadTimer.isActive()
  timerInterval,              \* interval of the running downloadTimer in seconds, 0 if stopped
  downloaderUrl,              \* HttpDownloader: URL set by setUrl
  reply,                      \* HttpDownloader: URL of the request in flight, or NoReply
  ignoreSslErrors,            \* HttpDownloader: value given to setIgnoreSslErrors
  visited,                    \* history: the stages currentState took since it last was NONE
  db,                         \* DatabaseManager: selection, files, open databases, log
  startShots,                 \* pending QTimer::singleShot(0, downloader, startDownload)
  retryShots,                 \* pending QTimer::singleShot(180 s, this, startProcessing)
  retryDelay,                 \* delay in seconds of the most recently armed retry
  manager,                    \* OnlinedataManager: status values, whazzup values, client table
  opts,                       \* OptionData::instance()
  now,                        \* QDateTime::currentDateTime() in seconds
  statusMessage,              \* MainWindow::setOnlineConnectionStatusMessageText
  queryResult,                \* what the last call of a shadow function gave its caller
  emitted                     \* signals emitted and warnings logged by the last handler

vars == <<currentState, whazzupUrlFromStatus, lastUpdateTime, lastUpdateTimeTransceivers,
          lastServerDownload, clientCallsignAndPosMap, aircraftCache,
          simulatorAiRegistrations, simulatorAiOrder, timerActive, timerInterval, downloaderUrl, reply,
          startShots, retryShots, retryDelay, manager, opts, now, statusMessage,
          queryResult, ignoreSslErrors, visited, db, emitted>>

-----------------------------------------------------------------------------
(* Bounds of the model *)

\* Pending deferred startDownload calls the model follows
MaxStartShots == 2
\* Pending failure retries the model follows
MaxRetryShots == 2
\* Number of clock steps
MaxTicks == 1
\* Largest timestamp embedded in a whazzup payload
MaxTimestamp == 2

-----------------------------------------------------------------------------
(* Program constants *)

MIN_SERVER_DOWNLOAD_INTERVAL_MIN == 15
MIN_TRANSCEIVER_DOWNLOAD_INTERVAL_MIN == 5
MIN_RELOAD_TIME_SECONDS == 15
\* atools::geo::nmToMeter(30) truncated to int
MIN_DISTANCE_DUPLICATE_M == 55560
\* Delay of the retry after a failed download in seconds: 180 * 1000 ms
RETRY_DELAY_SECONDS == 180

NONE == "NONE"
DOWNLOADING_STATUS == "DOWNLOADING_STATUS"
DOWNLOADING_TRANSCEIVERS == "DOWNLOADING_TRANSCEIVERS"
DOWNLOADING_WHAZZUP == "DOWNLOADING_WHAZZUP"
DOWNLOADING_WHAZZUP_SERVERS == "DOWNLOADING_WHAZZUP_SERVERS"

State == {NONE, DOWNLOADING_STATUS, DOWNLOADING_TRANSCEIVERS, DOWNLOADING_WHAZZUP,
          DOWNLOADING_WHAZZUP_SERVERS}

\* No request in flight (HttpDownloader::reply == nullptr)
NoReply == "<none>"

\* QMessageBox buttons of the SSL question
Yes == "QMessageBox::Yes"
Cancel == "QMessageBox::Cancel"

\* QDateTime::fromSecsSinceEpoch(0) and a default constructed QDateTime
Epoch == 0
InvalidTime == 0 - 1

\* One clock step: longer than the server and the transceiver download interval
TickSeconds == (MIN_SERVER_DOWNLOAD_INTERVAL_MIN + MIN_TRANSCEIVER_DOWNLOAD_INTERVAL_MIN) * 60
StartTime == 4 * TickSeconds
EndTime == StartTime + MaxTicks * TickSeconds

Max(a, b) == IF a > b THEN a ELSE b

\* QHash helpers on maps kept as sets of <<key, value>> pairs
Keys(m) == {e[1] : e \in m}
Contains(m, k) == k \in Keys(m)
Value(m, k, default) == IF Contains(m, k) THEN (CHOOSE e \in m : e[1] = k)[2] ELSE default
Insert(m, k, v) == {e \in m : e[1] # k} \cup {<<k, v>>}
Remove(m, k) == {e \in m : e[1] # k}

-----------------------------------------------------------------------------
(* OptionData: the configurations the model switches between *)

\* Facility types: one without a configured size and two of those with one
FacilityTypes == {"UNKNOWN", "OBSERVER", "TOWER"}

\* getDisplayOnlineObserver and getDisplayOnlineTower: circle diameters, -1 if unset
Display(observer, tower) == [OBSERVER |-> observer, TOWER |-> tower]

Option(network, format, statusUrl, whazzupUrl, transceiverUrl, reload, transceiverReload, display) ==
  [network |-> network, format |-> format, statusUrl |-> statusUrl,
   whazzupUrl |-> whazzupUrl, transceiverUrl |-> transceiverUrl, reload |-> reload,
   transceiverReload |-> transceiverReload, display |-> display]

\* OptionData::getOnlineTransceiverUrl is outside the source at hand: the
\* configurations cover a network with and networks without a transceiver URL
Options ==
  { Option("ONLINE_NONE", "ONLINE_FORMAT_VATSIM", "", "", "", 0 - 1, 0 - 1,
           Display(0 - 1, 0 - 1)),
    Option("ONLINE_VATSIM", "ONLINE_FORMAT_VATSIM_JSON", "status", "", "transceivers", 0 - 1, 0 - 1,
           Display(0, 1)),
    Option("ONLINE_IVAO", "ONLINE_FORMAT_IVAO_JSON", "", "whazzup", "", 0 - 1, 0 - 1,
           Display(2, 3)),
    Option("ONLINE_PILOTEDGE", "ONLINE_FORMAT_VATSIM", "status", "whazzup", "", 0 - 1, 0 - 1,
           Display(10, 0 - 1)),
    Option("ONLINE_CUSTOM", "ONLINE_FORMAT_VATSIM_JSON", "", "whazzup", "", 10, 0 - 1,
           Display(5, 20)),
    Option("ONLINE_CUSTOM_STATUS", "ONLINE_FORMAT_VATSIM_JSON", "", "", "", 10, 0 - 1,
           Display(0 - 1, 7)) }

convertFormat(format) ==
  CASE format = "ONLINE_FORMAT_VATSIM" -> "VATSIM"
    [] format = "ONLINE_FORMAT_VATSIM_JSON" -> "VATSIM_JSON3"
    [] format = "ONLINE_FORMAT_IVAO" -> "IVAO"
    [] format = "ONLINE_FORMAT_IVAO_JSON" -> "IVAO_JSON2"
    [] OTHER -> "UNKNOWN"

getNetworkTranslated(c) ==
  CASE c.opts.network = "ONLINE_NONE" -> ""
    [] c.opts.network = "ONLINE_VATSIM" -> "VATSIM"
    [] c.opts.network = "ONLINE_IVAO" -> "IVAO"
    [] c.opts.network = "ONLINE_PILOTEDGE" -> "PilotEdge"
    [] c.opts.network \in {"ONLINE_CUSTOM_STATUS", "ONLINE_CUSTOM"} -> "Custom Network"
    [] OTHER -> ""

-----------------------------------------------------------------------------
(* Payloads and simulator inputs *)

Callsigns == {"N1", "N2"}
Positions == 0 .. 2
InvalidPos == 0 - 1

\* Client tables a whazzup payload can carry
ClientTables == { {}, {<<"N1", 1>>, <<"N2", 0>>} }

\* Result of parsing a status document: whazzup URL, JSON flag, voice server URL.
\* The JSON flag is the flag of the URL picked, so it comes with a URL.
StatusDoc(whazzupUrl, json, voiceUrl) ==
  [whazzupUrl |-> whazzupUrl, json |-> json, voiceUrl |-> voiceUrl]

StatusDocs ==
  { StatusDoc("", FALSE, ""), StatusDoc("whazzupFromStatus", FALSE, ""),
    StatusDoc("whazzupFromStatus", FALSE, "servers"),
    StatusDoc("whazzupFromStatus", TRUE, "servers") }

\* Content of a whazzup document: embedded timestamp, reload minutes, clients
WhazzupDoc(timestamp, reloadMinutes, clients) ==
  [timestamp |-> timestamp, reloadMinutes |-> reloadMinutes, clients |-> clients]

WhazzupDocs ==
  { WhazzupDoc(t, IF t = 1 THEN 0 ELSE 2, cl) : t \in 1 .. MaxTimestamp, cl \in ClientTables }

\* The manager before the controller is constructed: nothing read, default sizes
EmptyManager ==
  [whazzupUrl |-> "", json |-> FALSE, voiceUrl |-> "", lastUpdate |-> 0,
   reloadMinutes |-> 0, clients |-> {}, atcSize |-> [t \in FacilityTypes |-> 0 - 1]]

EmptyCache == [rect |-> 0, list |-> {}]

\* No shadow function has been called
NoResult == [op |-> ""]

-----------------------------------------------------------------------------
(* DatabaseManager: the simulator and navdata databases, the switches       *)
(* between them and the scenery library loading. The state of the manager  *)
(* is the record db; db.log lists what the last handler did, in order.     *)

\* Compilations of the scenery library the model follows
MaxLoads == 2
\* Modification warnings the model lets be open at a time
MaxWarnings == 2

\* atools::fs::FsPaths::SimulatorType values with a database of their own
SimTypes == {"FSX", "MSFS"}
NAVIGRAPH == "NAVIGRAPH"

\* dm::NavdatabaseStatus, also naming the menu action that selects it
NavStatuses == {"NAVDATABASE_ALL", "NAVDATABASE_MIXED", "NAVDATABASE_OFF"}

\* Database files are named by the simulator type they belong to
buildDatabaseFileName(type) == type
buildCompilingDatabaseFileName == "compiling"
FileNames == SimTypes \cup {NAVIGRAPH}

\* The SqlDatabase objects closeAllDatabases closes, in its order
Handles == <<"databaseSim", "databaseNav", "databaseSimAirspace", "databaseNavAirspace">>
HandleNames == {Handles[i] : i \in 1 .. Len(Handles)}
tempDb == "tempDb"

\* A database that is not open
Closed == ""

\* Content of a file: NoFile, an empty schema, or the number of the compilation
NoFile == 0 - 1
EmptySchema == 0

QDialogAccepted == "QDialog::Accepted"
QDialogRejected == "QDialog::Rejected"
No == "QMessageBox::No"

COMPILE_ABORTED == "COMPILE_ABORTED"
COMPILE_MSFS_NAVIGRAPH_FOUND == "COMPILE_MSFS_NAVIGRAPH_FOUND"

\* One of the sim, nav and airspace databases is open
anyOpen(d) == \E h \in HandleNames : d.open[h] # Closed

\* A line of db.log: what was done, to what, and whether a database was open
logEvent(d, ev, arg) == [d EXCEPT !.log = Append(@, [ev |-> ev, arg |-> arg, open |-> anyOpen(d)])]

emitPreDatabaseLoad(d) == logEvent(d, "preDatabaseLoad", "")
emitPostDatabaseLoad(d) == logEvent(d, "postDatabaseLoad", d.currentFsType)

\* closeDatabaseFile: closes and logs only an open database
closeDatabaseFile(d, handle) ==
  IF handle = tempDb THEN logEvent(d, "Closing database", buildCompilingDatabaseFileName)
  ELSE IF d.open[handle] # Closed
       THEN [logEvent(d, "Closing database", d.open[handle]) EXCEPT !.open[handle] = Closed]
       ELSE d

closeAllDatabases(d) ==
  closeDatabaseFile(closeDatabaseFile(closeDatabaseFile(closeDatabaseFile(d, Handles[1]), Handles[2]), Handles[3]), Handles[4])

\* openDatabaseFile with createSchema: a missing file is created with an empty
\* schema; SqlDatabase::open notes the state of the file it opened
openDatabaseFile(d, handle, file) ==
  IF handle = tempDb
  THEN [logEvent(d, "Opening database", file) EXCEPT !.temp = IF @ = NoFile THEN EmptySchema ELSE @]
  ELSE [logEvent(d, "Opening database", file) EXCEPT
          !.open[handle] = file,
          !.files[file] = IF @ = NoFile THEN EmptySchema ELSE @,
          !.modified = @ \ {handle}]

openAllDatabases(d) ==
  LET simAirspaceDbFile == buildDatabaseFileName(d.currentFsType)
      navAirspaceDbFile == buildDatabaseFileName(NAVIGRAPH)
      simDbFile == IF d.navDatabaseStatus = "NAVDATABASE_ALL" THEN navAirspaceDbFile
                   ELSE simAirspaceDbFile
      navDbFile == IF d.navDatabaseStatus = "NAVDATABASE_OFF" THEN simAirspaceDbFile
                   ELSE navAirspaceDbFile
  IN openDatabaseFile(openDatabaseFile(openDatabaseFile(openDatabaseFile(d, Handles[1], simDbFile), Handles[2], navDbFile), Handles[3], simAirspaceDbFile), Handles[4], navAirspaceDbFile)

\* Assignments of the selection, noted in the log
setCurrentFsType(d, type) == [logEvent(d, "select", type) EXCEPT !.currentFsType = type]
setNavDatabaseStatus(d, status) == [logEvent(d, "select", status) EXCEPT !.navDatabaseStatus = status]

\* The manager after construction and the main window's openAllDatabases
DatabaseManagerInit(type, status) ==
  [openAllDatabases(
     [currentFsType |-> type, selectedFsType |-> type, navDatabaseStatus |-> status,
      checked |-> status, open |-> [h \in HandleNames |-> Closed],
      files |-> [f \in FileNames |-> EmptySchema], temp |-> NoFile, loads |-> 0,
      modified |-> {}, showingDatabaseChangeWarning |-> FALSE, warnings |-> 0,
      resultFlags |-> {}, running |-> FALSE, log |-> <<>>])
   EXCEPT !.log = <<>>]

\* switchNavFromMainMenu: db.checked is the menu action that is checked
switchNavFromMainMenu(d) ==
  emitPostDatabaseLoad(openAllDatabases(setNavDatabaseStatus(closeAllDatabases(emitPreDatabaseLoad(d)), d.checked)))

\* Mutant: the simulator is selected before the databases are closed
switchSimSelectsFirst(d, action) ==
  IF action # "null" /\ d.currentFsType # action
  THEN emitPostDatabaseLoad(openAllDatabases(closeAllDatabases(setCurrentFsType(emitPreDatabaseLoad(d), action))))
  ELSE d

\* switchSimFromMainMenu: action is the simulator type of the sender, or null
switchSimFromMainMenu(d, action) ==
  IF action # "null" /\ d.currentFsType # action
  THEN emitPostDatabaseLoad(openAllDatabases(setCurrentFsType(closeAllDatabases(emitPreDatabaseLoad(d)), action)))
  ELSE d

\* QFile::remove and QFile::rename; rename does not overwrite a file
removeFile(d, file, ok) ==
  IF file = buildCompilingDatabaseFileName
  THEN [logEvent(d, "QFile::remove", file) EXCEPT !.temp = NoFile]
  ELSE [logEvent(d, "QFile::remove", file) EXCEPT !.files[file] = IF ok THEN NoFile ELSE @]

renameTemp(d, file, ok) ==
  IF ok /\ d.files[file] = NoFile
  THEN [logEvent(d, "QFile::rename", file) EXCEPT !.files[file] = d.temp, !.temp = NoFile]
  ELSE logEvent(d, "QFile::rename", file)

\* The words of a bool in the log
boolText(b) == IF b THEN "true" ELSE "false"

\* loadScenery compiles into the database it is given; flags are the result
\* flags the compilation leaves, success is the value it returns
loadScenery(d, handle, flags, success) ==
  logEvent([logEvent(d, "loadScenery", handle) EXCEPT !.loads = @ + 1, !.temp = d.loads + 1, !.resultFlags = flags], "loadScenery returns", boolText(success))

\* The part of runInternal after a successful loadScenery
runInternalLoaded(d, removeOk, renameOk) ==
  LET selectedFilename == buildDatabaseFileName(d.selectedFsType)
      d1 == closeAllDatabases(emitPreDatabaseLoad(closeDatabaseFile(d, tempDb)))
      d2 == renameTemp(removeFile(d1, selectedFilename, removeOk), selectedFilename, renameOk)
  IN emitPostDatabaseLoad(openAllDatabases(setCurrentFsType(d2, d.selectedFsType)))

\* Mutant: the old database is removed before the scenery is loaded
runInternalRemovesFirst(d, retval, selected, configValid, loadOk, flags, removeOk, renameOk) ==
  LET d0 == [logEvent(d, "databaseDialog->exec", retval) EXCEPT !.selectedFsType = selected]
      selectedFilename == buildDatabaseFileName(selected)
  IN IF retval = QDialogAccepted
     THEN IF configValid
          THEN LET d1 == removeFile(d0, selectedFilename, removeOk)
                   d2 == openDatabaseFile(removeFile(d1, buildCompilingDatabaseFileName, TRUE), tempDb, buildCompilingDatabaseFileName)
                   d3 == loadScenery(d2, tempDb, flags, loadOk)
               IN IF loadOk
                  THEN [runInternalLoaded(d3, removeOk, renameOk) EXCEPT !.running = FALSE]
                  ELSE [removeFile(closeDatabaseFile(d3, tempDb), buildCompilingDatabaseFileName, TRUE) EXCEPT !.running = TRUE]
          ELSE [d0 EXCEPT !.running = TRUE]
     ELSE [d0 EXCEPT !.resultFlags = @ \cup {COMPILE_ABORTED}, !.running = FALSE]

\* runInternal: one showing of the loading dialog; db.running is the value it
\* returns, reopenDialog
runInternal(d, retval, selected, configValid, loadOk, flags, removeOk, renameOk) ==
  LET d0 == [logEvent(d, "databaseDialog->exec", retval) EXCEPT !.selectedFsType = selected]
  IN IF retval = QDialogAccepted
     THEN IF configValid
          THEN LET d1 == openDatabaseFile(removeFile(d0, buildCompilingDatabaseFileName, TRUE), tempDb, buildCompilingDatabaseFileName)
                   d2 == loadScenery(d1, tempDb, flags, loadOk)
               IN IF loadOk
                  THEN [runInternalLoaded(d2, removeOk, renameOk) EXCEPT !.running = FALSE]
                  ELSE [removeFile(closeDatabaseFile(d2, tempDb), buildCompilingDatabaseFileName, TRUE) EXCEPT !.running = TRUE]
          ELSE [d0 EXCEPT !.running = TRUE]
     ELSE [d0 EXCEPT !.resultFlags = @ \cup {COMPILE_ABORTED}, !.running = FALSE]

\* The scenery library mode run() offers after the loading, if any
correctedMode(d) ==
  IF COMPILE_ABORTED \in d.resultFlags THEN ""
  ELSE IF d.currentFsType = "MSFS"
       THEN IF COMPILE_MSFS_NAVIGRAPH_FOUND \in d.resultFlags
            THEN IF d.navDatabaseStatus # "NAVDATABASE_MIXED" THEN "NAVDATABASE_MIXED" ELSE ""
            ELSE IF d.navDatabaseStatus # "NAVDATABASE_OFF" THEN "NAVDATABASE_OFF" ELSE ""
       ELSE IF d.navDatabaseStatus = "NAVDATABASE_ALL" THEN "NAVDATABASE_MIXED" ELSE ""

\* run() after its loop: result is the answer to the question it may ask
runFinish(d, result) ==
  IF correctedMode(d) # "" /\ result = Yes
  THEN switchNavFromMainMenu([d EXCEPT !.checked = correctedMode(d)])
  ELSE d

\* run(): one turn of its loop and, when runInternal returns false, its end
run(d, retval, selected, configValid, loadOk, flags, removeOk, renameOk, result) ==
  LET d1 == runInternal([d EXCEPT !.log = <<>>, !.resultFlags = IF d.running THEN @ ELSE {}], retval, selected, configValid, loadOk, flags, removeOk, renameOk)
  IN IF d1.running THEN d1 ELSE runFinish(d1, result)

\* The files the warning would name
modifiedFiles(d) ==
  {d.open[h] : h \in {x \in {"databaseSim", "databaseNav"} : d.open[x] # Closed /\ x \in d.modified}}

\* Mutant: no guard against a second invocation
checkForChangedUnguarded(d, active) ==
  IF active /\ modifiedFiles(d) # {}
  THEN [logEvent(d, "QMessageBox::warning", "") EXCEPT
          !.showingDatabaseChangeWarning = TRUE, !.warnings = @ + 1]
  ELSE [d EXCEPT !.showingDatabaseChangeWarning = FALSE]

\* checkForChangedNavAndSimDatabases up to the point where it returns or waits
\* in the warning; active is Qt::ApplicationActive
checkForChangedNavAndSimDatabases(d, active) ==
  IF ~d.showingDatabaseChangeWarning
  THEN IF active /\ modifiedFiles(d) # {}
       THEN [logEvent(d, "QMessageBox::warning", "") EXCEPT
               !.showingDatabaseChangeWarning = TRUE, !.warnings = @ + 1]
       ELSE [d EXCEPT !.showingDatabaseChangeWarning = FALSE]
  ELSE logEvent(d, "checkForChangedNavAndSimDatabases", "guarded")

\* The rest of checkForChangedNavAndSimDatabases once the warning is closed
warningClosed(d) ==
  [d EXCEPT !.modified = {}, !.showingDatabaseChangeWarning = FALSE, !.warnings = @ - 1]

-----------------------------------------------------------------------------
(* The state as one record, and back *)

Cur ==
  [currentState |-> currentState, whazzupUrlFromStatus |-> whazzupUrlFromStatus,
   lastUpdateTime |-> lastUpdateTime,
   lastUpdateTimeTransceivers |-> lastUpdateTimeTransceivers,
   lastServerDownload |-> lastServerDownload,
   clientCallsignAndPosMap |-> clientCallsignAndPosMap, aircraftCache |-> aircraftCache,
   simulatorAiRegistrations |-> simulatorAiRegistrations,
   simulatorAiOrder |-> simulatorAiOrder, timerActive |-> timerActive,
   timerInterval |-> timerInterval, downloaderUrl |-> downloaderUrl, reply |-> reply,
   startShots |-> startShots, retryShots |-> retryShots, retryDelay |-> retryDelay,
   manager |-> manager, opts |-> opts, now |-> now, statusMessage |-> statusMessage,
   queryResult |-> queryResult, ignoreSslErrors |-> ignoreSslErrors,
   visited |-> visited, db |-> db,
   emitted |-> <<>>]

\* An emptied hash has no order of insertion left
Set(c) ==
  /\ simulatorAiOrder' = (IF c.simulatorAiRegistrations = {} THEN <<>>
                          ELSE c.simulatorAiOrder)
  /\ currentState' = c.currentState
  /\ whazzupUrlFromStatus' = c.whazzupUrlFromStatus
  /\ lastUpdateTime' = c.lastUpdateTime
  /\ lastUpdateTimeTransceivers' = c.lastUpdateTimeTransceivers
  /\ lastServerDownload' = c.lastServerDownload
  /\ clientCallsignAndPosMap' = c.clientCallsignAndPosMap
  /\ aircraftCache' = c.aircraftCache
  /\ simulatorAiRegistrations' = c.simulatorAiRegistrations
  /\ timerActive' = c.timerActive
  /\ timerInterval' = c.timerInterval
  /\ downloaderUrl' = c.downloaderUrl
  /\ reply' = c.reply
  /\ startShots' = c.startShots
  /\ retryShots' = c.retryShots
  /\ retryDelay' = c.retryDelay
  /\ manager' = c.manager
  /\ opts' = c.opts
  /\ now' = c.now
  /\ statusMessage' = c.statusMessage
  /\ queryResult' = c.queryResult
  /\ ignoreSslErrors' = c.ignoreSslErrors
  /\ visited' = c.visited
  /\ db' = c.db
  /\ emitted' = c.emitted

-----------------------------------------------------------------------------
(* Collaborators: HttpDownloader, OnlinedataManager, SimpleRectCache *)

\* HttpDownloader::isDownloading
isDownloading(c) == c.reply # NoReply

\* HttpDownloader::cancelDownload: drops the request in flight. It does not know
\* about calls of startDownload that wait in the event loop.
cancelDownload(c) == [c EXCEPT !.reply = NoReply]

\* HttpDownloader::setIgnoreSslErrors
setIgnoreSslErrors(c, ignore) == [c EXCEPT !.ignoreSslErrors = ignore]

\* HttpDownloader::setUrl
setUrl(c, url) == [c EXCEPT !.downloaderUrl = url]

\* HttpDownloader::startDownload: cancels a running request and starts one for
\* the URL the downloader holds at that moment
startDownload(c) == [cancelDownload(c) EXCEPT !.reply = c.downloaderUrl]

\* OnlinedataManager::readFromStatus
readFromStatus(c, doc) ==
  [c EXCEPT !.manager.whazzupUrl = doc.whazzupUrl, !.manager.json = doc.json,
            !.manager.voiceUrl = doc.voiceUrl]

\* OnlinedataManager::readFromWhazzup returns true if the embedded timestamp is
\* newer than the last update
whazzupAccepted(c, doc) == doc.timestamp > c.manager.lastUpdate

readFromWhazzup(c, doc) ==
  IF whazzupAccepted(c, doc)
  THEN [c EXCEPT !.manager.lastUpdate = doc.timestamp,
                 !.manager.reloadMinutes = doc.reloadMinutes,
                 !.manager.clients = doc.clients]
  ELSE c

\* OnlinedataManager::resetForNewOptions: forgets what status and whazzup told
resetForNewOptions(c) ==
  [c EXCEPT !.manager.whazzupUrl = "", !.manager.json = FALSE, !.manager.voiceUrl = "",
            !.manager.lastUpdate = 0, !.manager.reloadMinutes = 0]

\* OnlinedataManager::clearData: empties the client table
clearData(c) == [c EXCEPT !.manager.clients = {}]

\* SimpleRectCache::clear
clearCache(c) == [c EXCEPT !.aircraftCache = EmptyCache]

\* SimpleRectCache::updateCache: a non lazy query for a rectangle the cached one
\* does not cover drops the list and remembers the new rectangle
updateCache(c, rect, lazy) ==
  IF lazy THEN c
  ELSE IF c.aircraftCache.rect = 0 \/ rect > c.aircraftCache.rect
       THEN [c EXCEPT !.aircraftCache = [rect |-> rect, list |-> {}]]
       ELSE c

\* Pos::distanceMeterTo on the model's positions, one step being the threshold
distanceMeterTo(p, q) == (IF p > q THEN p - q ELSE q - p) * MIN_DISTANCE_DUPLICATE_M

-----------------------------------------------------------------------------
(* OnlinedataController *)

\* Division of C++ on int: the quotient is truncated towards zero
cdiv(a, b) == IF a >= 0 THEN a \div b ELSE 0 - ((0 - a) \div b)

\* Mutant: the sizes are left as they are
updateAtcSizesKeepsSizes(c) == c

\* OnlinedataManager::setAtcSize of the radius per facility type
updateAtcSizes(c) ==
  [c EXCEPT !.manager.atcSize =
     [t \in FacilityTypes |->
        LET diameter == IF t = "UNKNOWN" THEN 0 - 1 ELSE c.opts.display[t]
        IN IF diameter # 0 - 1 THEN Max(1, cdiv(diameter, 2)) ELSE 0 - 1]]

\* emit of a signal, and qWarning and qInfo of a log line
emit(c, signal) == [c EXCEPT !.emitted = Append(@, signal)]

Signals == {"onlineServersUpdated", "onlineClientAndAtcUpdated", "onlineNetworkChanged"}

statusBarMessage(c) ==
  IF getNetworkTranslated(c) # ""
  THEN [c EXCEPT !.statusMessage = [kind |-> "connected", url |-> "", error |-> ""]]
  ELSE [c EXCEPT !.statusMessage = [kind |-> "", url |-> "", error |-> ""]]

\* QTimer::stop
stopTimer(c) == [c EXCEPT !.timerActive = FALSE, !.timerInterval = 0]

\* Mutant: the stop empties the position map as well
stopAllProcessesClearsClients(c) ==
  [stopTimer(cancelDownload(c)) EXCEPT !.currentState = NONE,
                                       !.simulatorAiRegistrations = {},
                                       !.clientCallsignAndPosMap = {}]

\* Mutant: the re-poll timer survives the stop
stopAllProcessesKeepsTimer(c) ==
  [cancelDownload(c) EXCEPT !.currentState = NONE, !.simulatorAiRegistrations = {}]

\* Mutant: the registrations survive the stop
stopAllProcessesKeepsRegistrations(c) ==
  [stopTimer(cancelDownload(c)) EXCEPT !.currentState = NONE]

stopAllProcesses(c) ==
  [stopTimer(cancelDownload(c)) EXCEPT !.currentState = NONE,
                                       !.simulatorAiRegistrations = {}]

\* Mutant: the download is started inside the handler
startDownloaderInline(c) == startDownload(c)

\* QTimer::singleShot(0, downloader, &HttpDownloader::startDownload)
startDownloader(c) == [c EXCEPT !.startShots = @ + 1]

\* Mutant: the configured interval is taken as it is
reloadIntervalSecondsNoFloor(c) ==
  IF c.opts.reload = 0 - 1 THEN Max(c.manager.reloadMinutes * 60, 60) ELSE c.opts.reload

\* Interval chosen by startDownloadTimer
reloadIntervalSeconds(c) ==
  IF c.opts.network \in {"ONLINE_CUSTOM", "ONLINE_CUSTOM_STATUS"}
  THEN c.opts.reload
  ELSE IF c.opts.reload = 0 - 1
       THEN Max(c.manager.reloadMinutes * 60, 60)
       ELSE Max(c.opts.reload, MIN_RELOAD_TIME_SECONDS)

startDownloadTimer(c) ==
  [stopTimer(c) EXCEPT !.timerActive = TRUE, !.timerInterval = reloadIntervalSeconds(c)]

\* Mutant: the guard looks at the downloader only
startRejectedIgnoresState(c) == isDownloading(c)

\* Guard of startDownloadInternal
startRejected(c) == isDownloading(c) \/ c.currentState # NONE

transceiverReload(c) ==
  IF c.opts.transceiverReload = 0 - 1
  THEN MIN_TRANSCEIVER_DOWNLOAD_INTERVAL_MIN * 60
  ELSE c.opts.transceiverReload

transceiversDue(c) ==
  /\ convertFormat(c.opts.format) = "VATSIM_JSON3"
  /\ c.lastUpdateTimeTransceivers # InvalidTime
  /\ c.lastUpdateTimeTransceivers < c.now - transceiverReload(c)

\* Mutant: the configured whazzup URL is taken before the one of the status
firstStagePrefersConfigUrl(c) ==
  IF transceiversDue(c)
  THEN [state |-> DOWNLOADING_TRANSCEIVERS, url |-> c.opts.transceiverUrl]
  ELSE IF c.whazzupUrlFromStatus = "" /\ c.opts.statusUrl # ""
       THEN [state |-> DOWNLOADING_STATUS, url |-> c.opts.statusUrl]
       ELSE IF c.opts.whazzupUrl # "" \/ c.whazzupUrlFromStatus # ""
            THEN [state |-> DOWNLOADING_WHAZZUP,
                  url |-> IF c.opts.whazzupUrl = "" THEN c.whazzupUrlFromStatus
                          ELSE c.opts.whazzupUrl]
            ELSE [state |-> c.currentState, url |-> ""]

\* First stage of a chain: the state to enter and the URL to fetch
firstStage(c) ==
  IF transceiversDue(c)
  THEN [state |-> DOWNLOADING_TRANSCEIVERS, url |-> c.opts.transceiverUrl]
  ELSE IF c.whazzupUrlFromStatus = "" /\ c.opts.statusUrl # ""
       THEN [state |-> DOWNLOADING_STATUS, url |-> c.opts.statusUrl]
       ELSE IF c.opts.whazzupUrl # "" \/ c.whazzupUrlFromStatus # ""
            THEN [state |-> DOWNLOADING_WHAZZUP,
                  url |-> IF c.whazzupUrlFromStatus = "" THEN c.opts.whazzupUrl
                          ELSE c.whazzupUrlFromStatus]
            ELSE [state |-> c.currentState, url |-> ""]

startDownloadInternal(c) ==
  IF startRejected(c) THEN emit(c, "qWarning startDownloadInternal")
  ELSE LET c1 == stopAllProcesses(c) IN
       IF c1.opts.network = "ONLINE_NONE" THEN c1
       ELSE LET c2 == [c1 EXCEPT !.whazzupUrlFromStatus = c1.manager.whazzupUrl] IN
            IF c2.currentState = NONE
            THEN LET stage == firstStage(c2)
                     c3 == [c2 EXCEPT !.currentState = stage.state]
                 IN IF stage.url # "" THEN startDownloader(setUrl(c3, stage.url)) ELSE c3
            ELSE c2

startProcessing(c) == startDownloadInternal(c)

\* The three places of downloadFinished that end a cycle
finishCycle(c) ==
  [startDownloadTimer(c) EXCEPT !.currentState = NONE, !.lastUpdateTime = c.now]

\* Mutant: the end of a cycle leaves the aircraft cache as it is
clearAfterCycleKeepsCache(c) == [c EXCEPT !.simulatorAiRegistrations = {}]

clearAfterCycle(c) == [clearCache(c) EXCEPT !.simulatorAiRegistrations = {}]

\* Mutant: the age of the last server download is not checked
serversDueIgnoresInterval(c) ==
  /\ convertFormat(c.opts.format) \notin {"VATSIM_JSON3", "IVAO_JSON2"}
  /\ c.manager.voiceUrl # ""

\* Mutant: the servers are fetched for the JSON formats too
serversDueForJson(c) ==
  /\ c.manager.voiceUrl # ""
  /\ c.lastServerDownload < c.now - MIN_SERVER_DOWNLOAD_INTERVAL_MIN * 60

serversDue(c) ==
  /\ convertFormat(c.opts.format) \notin {"VATSIM_JSON3", "IVAO_JSON2"}
  /\ c.manager.voiceUrl # ""
  /\ c.lastServerDownload < c.now - MIN_SERVER_DOWNLOAD_INTERVAL_MIN * 60

\* Mutant: a status document without whazzup URL does not restart the re-poll timer
downloadFinishedStatusNoTimer(c, doc) ==
  LET c1 == readFromStatus(c, doc)
      c2 == [c1 EXCEPT !.whazzupUrlFromStatus = c1.manager.whazzupUrl]
  IN IF c2.manager.json
     THEN startDownloader(setUrl([c2 EXCEPT !.currentState = DOWNLOADING_TRANSCEIVERS],
                                 c2.opts.transceiverUrl))
     ELSE IF c2.whazzupUrlFromStatus # ""
          THEN startDownloader(setUrl([c2 EXCEPT !.currentState = DOWNLOADING_WHAZZUP],
                                      c2.whazzupUrlFromStatus))
          ELSE [c2 EXCEPT !.currentState = NONE, !.lastUpdateTime = c.now]

downloadFinishedStatus(c, doc) ==
  LET c1 == readFromStatus(c, doc)
      c2 == [c1 EXCEPT !.whazzupUrlFromStatus = c1.manager.whazzupUrl]
  IN IF c2.manager.json
     THEN startDownloader(setUrl([c2 EXCEPT !.currentState = DOWNLOADING_TRANSCEIVERS],
                                 c2.opts.transceiverUrl))
     ELSE IF c2.whazzupUrlFromStatus # ""
          THEN startDownloader(setUrl([c2 EXCEPT !.currentState = DOWNLOADING_WHAZZUP],
                                      c2.whazzupUrlFromStatus))
          ELSE finishCycle(c2)

\* Mutant: the transceiver completion ends the cycle
downloadFinishedTransceiversEndsCycle(c) ==
  finishCycle([c EXCEPT !.lastUpdateTimeTransceivers = c.now])

downloadFinishedTransceivers(c) ==
  startDownloader(setUrl([c EXCEPT !.currentState = DOWNLOADING_WHAZZUP,
                                   !.lastUpdateTimeTransceivers = c.now],
                         c.whazzupUrlFromStatus))

\* Mutant: the rejected payload is announced like an accepted one
whazzupRejectedNotifies(c) ==
  emit(emit(clearAfterCycle(finishCycle(emit(c, "qInfo whazzup.txt is not recent"))),
            "onlineServersUpdated"),
       "onlineClientAndAtcUpdated")

\* Mutant: the rejected payload does not restart the re-poll timer
whazzupRejectedNoTimer(c) ==
  [emit(c, "qInfo whazzup.txt is not recent") EXCEPT !.currentState = NONE,
                                                     !.lastUpdateTime = c.now]

\* The payload was not newer than the last one: the cycle ends, nothing is updated.
\* The log line is the one of a verbose run.
whazzupRejected(c) == finishCycle(emit(c, "qInfo whazzup.txt is not recent"))

downloadFinishedWhazzup(c, doc) ==
  IF whazzupAccepted(c, doc)
  THEN LET c1 == readFromWhazzup(c, doc)
           c2 == [c1 EXCEPT !.clientCallsignAndPosMap = c1.manager.clients]
       IN IF serversDue(c2)
          THEN startDownloader(setUrl([c2 EXCEPT !.currentState = DOWNLOADING_WHAZZUP_SERVERS],
                                      c2.manager.voiceUrl))
          ELSE statusBarMessage(emit(emit(clearAfterCycle(finishCycle(c2)),
                                          "onlineServersUpdated"),
                                     "onlineClientAndAtcUpdated"))
  ELSE whazzupRejected(readFromWhazzup(c, doc))

downloadFinishedServers(c) ==
  statusBarMessage(emit(emit(clearAfterCycle(finishCycle(
      [c EXCEPT !.lastServerDownload = c.now])),
                             "onlineClientAndAtcUpdated"),
                        "onlineServersUpdated"))

\* downloadFinished: data is what the parser of the current stage makes of the
\* payload
downloadFinished(c, data) ==
  CASE c.currentState = DOWNLOADING_STATUS -> downloadFinishedStatus(c, data)
    [] c.currentState = DOWNLOADING_TRANSCEIVERS -> downloadFinishedTransceivers(c)
    [] c.currentState = DOWNLOADING_WHAZZUP -> downloadFinishedWhazzup(c, data)
    [] c.currentState = DOWNLOADING_WHAZZUP_SERVERS -> downloadFinishedServers(c)
    [] OTHER -> c

\* QTimer::singleShot(180 * 1000, this, &OnlinedataController::startProcessing)
armRetry(c) == [c EXCEPT !.retryShots = @ + 1, !.retryDelay = RETRY_DELAY_SECONDS]

downloadFailed(c, error, url) ==
  armRetry([stopAllProcesses(emit(c, "qWarning downloadFailed")) EXCEPT
              !.statusMessage = [kind |-> "failed", url |-> url, error |-> error]])

\* Dialog(mainWindow).showQuestionMsgBox: the question is shown, or skipped if
\* the user chose not to see it again; result is the button it returns
showQuestionMsgBox(c, result) == emit(c, result)

\* Mutant: an SSL error ends the cycle
downloadSslErrorsAborts(c, result) ==
  setIgnoreSslErrors(stopAllProcesses(showQuestionMsgBox(emit(c, "qWarning downloadSslErrors"), result)), result = Yes)

downloadSslErrors(c, result) ==
  setIgnoreSslErrors(showQuestionMsgBox(emit(c, "qWarning downloadSslErrors"), result),
                     result = Yes)

optionsChanged(c) ==
  LET c1 == stopAllProcesses(resetForNewOptions(c))
      c2 == updateAtcSizes([clearCache(clearData(c1)) EXCEPT
                              !.simulatorAiRegistrations = {},
                              !.clientCallsignAndPosMap = {}])
      c3 == statusBarMessage(emit(emit(emit(c2, "onlineClientAndAtcUpdated"),
                                       "onlineServersUpdated"),
                                  "onlineNetworkChanged"))
      c4 == [c3 EXCEPT !.lastUpdateTime = Epoch, !.lastServerDownload = Epoch]
  IN startDownloadInternal(c4)

userAirspacesUpdated(c) == optionsChanged(c)

-----------------------------------------------------------------------------
(* getAircraft *)

\* Simulator side of a query: user aircraft, connection state, AI aircraft
Sim(userReg, userPos, connected, ai) ==
  [userReg |-> userReg, userPos |-> userPos, connected |-> connected, ai |-> ai]

RECURSIVE insertAll(_, _)
insertAll(m, aircraft) ==
  IF aircraft = <<>> THEN m
  ELSE insertAll(Insert(m, Head(aircraft)[1], Head(aircraft)[2]), Tail(aircraft))

\* Mutant: the empty registration stays in the map
curRegistrationsKeepsEmpty(sim) ==
  LET user == Insert({}, sim.userReg, sim.userPos)
  IN IF sim.connected THEN insertAll(user, sim.ai) ELSE user

\* Registrations of user and AI aircraft without the empty registration
curRegistrations(sim) ==
  LET user == Insert({}, sim.userReg, sim.userPos)
      all == IF sim.connected THEN insertAll(user, sim.ai) ELSE user
  IN Remove(all, "")

\* Registrations in the order getAircraft inserts them: user aircraft first, an
\* insert of a registration the hash holds already leaves its place
RECURSIVE insertKeys(_, _)
insertKeys(order, aircraft) ==
  IF aircraft = <<>> THEN order
  ELSE insertKeys(IF \E i \in 1 .. Len(order) : order[i] = Head(aircraft)[1]
                  THEN order ELSE Append(order, Head(aircraft)[1]),
                  Tail(aircraft))

insertionOrder(sim) ==
  LET registered(k) == k # ""
  IN SelectSeq(insertKeys(<<sim.userReg>>, IF sim.connected THEN sim.ai ELSE <<>>),
               registered)

\* Mutant: the registrations are compared with their positions
keysDifferByPosition(c, sim, layout) ==
  c.simulatorAiRegistrations # curRegistrations(sim)

\* simulatorAiRegistrations.keys() != curRegistrations.keys(): QHash::keys() lists
\* the keys in the order of the hash table, which for the same keys is the same
\* if they were inserted in the same order and is not specified otherwise;
\* layout tells whether the two lists differ in that case
keysDiffer(c, sim, layout) ==
  IF Keys(c.simulatorAiRegistrations) # Keys(curRegistrations(sim)) THEN TRUE
  ELSE IF c.simulatorAiOrder = insertionOrder(sim) THEN FALSE
       ELSE layout

\* Online aircraft of the client table inside rect that have no close copy in
\* the simulator
fillAircraft(c, rect, cur) ==
  { cl \in c.manager.clients :
      /\ cl[2] <= rect
      /\ \/ ~Contains(cur, cl[1])
         \/ distanceMeterTo(cl[2], Value(cur, cl[1], InvalidPos)) > MIN_DISTANCE_DUPLICATE_M }

\* Mutant: a lazy call remembers the registrations too
getAircraftLazyRemembers(c, rect, lazy, sim, layout) ==
  LET c1 == updateCache(c, rect, lazy)
      cur == curRegistrations(sim)
      c2 == IF keysDiffer(c1, sim, layout) THEN clearCache(c1) ELSE c1
  IN IF c2.aircraftCache.list = {} /\ ~lazy
     THEN [c2 EXCEPT !.aircraftCache.list = fillAircraft(c2, rect, cur),
                     !.simulatorAiRegistrations = cur,
                     !.simulatorAiOrder = insertionOrder(sim)]
     ELSE [c2 EXCEPT !.simulatorAiRegistrations = cur,
                     !.simulatorAiOrder = insertionOrder(sim)]

getAircraft(c, rect, lazy, sim, layout) ==
  LET c1 == updateCache(c, rect, lazy)
      cur == curRegistrations(sim)
      c2 == IF keysDiffer(c1, sim, layout) THEN clearCache(c1) ELSE c1
  IN IF c2.aircraftCache.list = {} /\ ~lazy
     THEN [c2 EXCEPT !.aircraftCache.list = fillAircraft(c2, rect, cur),
                     !.simulatorAiRegistrations = cur,
                     !.simulatorAiOrder = insertionOrder(sim)]
     ELSE c2

-----------------------------------------------------------------------------
(* Shadow aircraft *)

\* SimConnectAircraft of the simulator: registration, position, isOnlineShadow
SimAircraft(reg, pos, shadow) == [reg |-> reg, pos |-> pos, shadow |-> shadow]

\* SimConnectAircraft filled from a client record: registration and position
OnlineAircraft(reg, pos) == [reg |-> reg, pos |-> pos]

\* Mutant: a position at the threshold counts as close
isShadowAircraftAtThreshold(c, simAircraft) ==
  LET pos == Value(c.clientCallsignAndPosMap, simAircraft.reg, InvalidPos)
  IN \/ simAircraft.shadow
     \/ /\ pos # InvalidPos
        /\ distanceMeterTo(pos, simAircraft.pos) <= MIN_DISTANCE_DUPLICATE_M

isShadowAircraft(c, simAircraft) ==
  LET pos == Value(c.clientCallsignAndPosMap, simAircraft.reg, InvalidPos)
  IN \/ simAircraft.shadow
     \/ /\ pos # InvalidPos
        /\ distanceMeterTo(pos, simAircraft.pos) < MIN_DISTANCE_DUPLICATE_M

\* OnlinedataManager::getClientRecordsByCallsign
getClientRecordsByCallsign(c, callsign) == {cl \in c.manager.clients : cl[1] = callsign}

\* OnlinedataManager::fillFromClient of the first record
fillAircraftFromClient(clients) ==
  LET record == CHOOSE cl \in clients : TRUE
  IN OnlineAircraft(record[1], record[2])

\* Mutant: the record found keeps the position of the online client
getShadowAircraftKeepsPosition(c, onlineClient, simAircraft) ==
  LET clients == getClientRecordsByCallsign(c, simAircraft.reg)
      found == isShadowAircraft(c, simAircraft) /\ clients # {}
  IN [c EXCEPT !.queryResult =
        [op |-> "getShadowAircraft", simAircraft |-> simAircraft, ret |-> found,
         onlineClient |-> IF found THEN fillAircraftFromClient(clients) ELSE onlineClient]]

\* getShadowAircraft: the return value and the caller's onlineClient after it
getShadowAircraft(c, onlineClient, simAircraft) ==
  IF isShadowAircraft(c, simAircraft)
  THEN LET clients == getClientRecordsByCallsign(c, simAircraft.reg)
       IN IF clients # {}
          THEN [c EXCEPT !.queryResult =
                  [op |-> "getShadowAircraft", simAircraft |-> simAircraft, ret |-> TRUE,
                   onlineClient |-> [fillAircraftFromClient(clients) EXCEPT
                                       !.pos = simAircraft.pos]]]
          ELSE [emit(c, "qWarning No client found") EXCEPT !.queryResult =
                  [op |-> "getShadowAircraft", simAircraft |-> simAircraft, ret |-> FALSE,
                   onlineClient |-> onlineClient]]
  ELSE [c EXCEPT !.queryResult =
          [op |-> "getShadowAircraft", simAircraft |-> simAircraft, ret |-> FALSE,
           onlineClient |-> onlineClient]]

\* Registrations and positions of the simulator's shadow aircraft that
\* simulatorAiRegistrations knows, a later aircraft replacing an earlier one of
\* the same registration
RECURSIVE shadowRegistrations(_, _, _)
shadowRegistrations(c, registrations, simAircraft) ==
  IF simAircraft = <<>> THEN registrations
  ELSE LET ac == Head(simAircraft)
       IN shadowRegistrations(c,
            IF ac.shadow /\ ac.reg # "" /\ Contains(c.simulatorAiRegistrations, ac.reg)
            THEN Insert(registrations, ac.reg, ac.pos) ELSE registrations,
            Tail(simAircraft))

\* filterOnlineShadowAircraft: the caller's onlineAircraft after the call
filterOnlineShadowAircraft(c, onlineAircraft, simAircraft) ==
  LET registrations == shadowRegistrations(c, {}, simAircraft)
      kept(aircraft) ==
        ~ /\ Contains(registrations, aircraft.reg)
          /\ distanceMeterTo(aircraft.pos, Value(registrations, aircraft.reg, InvalidPos))
               <= MIN_DISTANCE_DUPLICATE_M
  IN SelectSeq(onlineAircraft, kept)

-----------------------------------------------------------------------------
(* Events *)

\* Query rectangles: rectangle r holds the positions 0 .. r
MaxRect == 1
Rects == 1 .. MaxRect

\* Simulator situations of the download state machine's specification
Sims == { Sim("N1", 1, TRUE, << <<"N2", 2>> >>) }

Errors == {"Connection refused"}

NoData == "<no data>"

\* What the parser of the current stage can make of a payload
Payloads(state) ==
  CASE state = DOWNLOADING_STATUS -> StatusDocs
    [] state = DOWNLOADING_WHAZZUP -> WhazzupDocs
    [] OTHER -> {NoData}

Init ==
  /\ currentState = NONE
  /\ whazzupUrlFromStatus = ""
  /\ lastUpdateTime = Epoch
  /\ lastUpdateTimeTransceivers = InvalidTime
  /\ lastServerDownload = Epoch
  /\ clientCallsignAndPosMap = {}
  /\ aircraftCache = EmptyCache
  /\ simulatorAiRegistrations = {}
  /\ simulatorAiOrder = <<>>
  /\ timerActive = FALSE
  /\ timerInterval = 0
  /\ downloaderUrl = ""
  /\ reply = NoReply
  /\ startShots = 0
  /\ retryShots = 0
  /\ retryDelay = 0
  /\ opts \in Options
  /\ manager = updateAtcSizes([manager |-> EmptyManager, opts |-> opts]).manager
  /\ now = StartTime
  /\ statusMessage = [kind |-> "", url |-> "", error |-> ""]
  /\ queryResult = NoResult
  /\ ignoreSslErrors = FALSE
  /\ visited = {}
  /\ db = DatabaseManagerInit("FSX", "NAVDATABASE_MIXED")
  /\ emitted = <<>>

\* One event: the state the handler leaves, within the bounds on pending calls
Step(c) ==
  /\ c.startShots <= MaxStartShots
  /\ c.retryShots <= MaxRetryShots
  /\ Set(c)

\* MainWindow calls startProcessing
StartProcessing == Step(startProcessing(Cur))

\* downloadTimer.timeout
TimerTimeout ==
  /\ timerActive
  /\ Step(startDownloadInternal(Cur))

\* The retry armed by downloadFailed fires
RetryTimeout ==
  /\ retryShots > 0
  /\ Step(startProcessing([Cur EXCEPT !.retryShots = @ - 1]))

\* A deferred HttpDownloader::startDownload runs
StartDownload ==
  /\ startShots > 0
  /\ Step(startDownload([Cur EXCEPT !.startShots = @ - 1]))

\* The request in flight succeeds. A request without URL cannot succeed.
DownloadFinished ==
  /\ reply \notin {NoReply, ""}
  /\ \E data \in Payloads(currentState) :
       Step(downloadFinished([Cur EXCEPT !.reply = NoReply], data))

\* The request in flight fails
DownloadFailed ==
  /\ reply # NoReply
  /\ \E error \in Errors :
       Step(downloadFailed([Cur EXCEPT !.reply = NoReply], error, reply))

\* The options dialog stored new options and notifies the controller
OptionsChanged ==
  \E o \in Options : Step(optionsChanged([Cur EXCEPT !.opts = o]))

UserAirspacesUpdated == Step(userAirspacesUpdated(Cur))

GetAircraft ==
  \E rect \in Rects, lazy \in BOOLEAN, sim \in Sims, layout \in BOOLEAN :
    Step(getAircraft(Cur, rect, lazy, sim, layout))

\* Time passes
Tick ==
  /\ now < EndTime
  /\ Step([Cur EXCEPT !.now = @ + TickSeconds])

Next ==
  \/ StartProcessing
  \/ TimerTimeout
  \/ RetryTimeout
  \/ StartDownload
  \/ DownloadFinished
  \/ DownloadFailed
  \/ OptionsChanged
  \/ UserAirspacesUpdated
  \/ GetAircraft
  \/ Tick

Spec == Init /\ [][Next]_vars

-----------------------------------------------------------------------------
(* Properties *)

\* Fetches outstanding: deferred starts waiting in the event loop plus the
\* request in flight
Outstanding == startShots + (IF reply # NoReply THEN 1 ELSE 0)

\* The handlers that call startDownloadInternal without a reset before it
StartCall == StartProcessing \/ TimerTimeout \/ RetryTimeout

\* The hard reset
Reset == OptionsChanged \/ UserAirspacesUpdated

UpdatedSignals == {"onlineServersUpdated", "onlineClientAndAtcUpdated"}

\* Number of times signal is in the sequence seq
Count(seq, signal) == Cardinality({i \in 1 .. Len(seq) : seq[i] = signal})

NoSignal(seq) == \A i \in 1 .. Len(seq) : seq[i] \notin Signals

\* C1: at most one fetch is outstanding in every reachable state, a fetch being
\* outstanding from the moment startDownloader schedules it until its completion
\* or failure is delivered or it is cancelled.
C1_AtMostOneFetchOutstanding == Outstanding <= 1

\* C2: startDownloadInternal called from startProcessing, the re-poll timer or
\* the retry timer while currentState is not NONE or a download is in flight
\* changes nothing: state, URL, timer, registrations, caches, pending fetches.
C2_RejectedStartIsNoOp ==
  [][ ((currentState # NONE \/ reply # NoReply) /\ StartCall)
      => UNCHANGED <<currentState, whazzupUrlFromStatus, lastUpdateTime,
                     lastUpdateTimeTransceivers, lastServerDownload,
                     clientCallsignAndPosMap, aircraftCache, simulatorAiRegistrations,
                     timerActive, timerInterval, downloaderUrl, reply, startShots,
                     manager, opts, statusMessage>> ]_vars

\* C2 witness: a call was rejected while a chain was active
C2_Witness ==
  /\ emitted = <<"qWarning startDownloadInternal">>
  /\ currentState # NONE

\* C3: whenever currentState is not NONE a fetch is in flight or scheduled.
C3_ActiveStateHasFetch == currentState # NONE => Outstanding > 0

\* C4: downloadFailed, in whatever state the failure is delivered, cancels the
\* download, stops the re-poll timer, sets currentState to NONE, empties
\* simulatorAiRegistrations, sets a status message with the failed URL and the
\* error and arms one more retry of startProcessing with a delay of 180 s.
C4_FailureAbortsChain ==
  [][ DownloadFailed
      => /\ reply' = NoReply
         /\ ~timerActive'
         /\ currentState' = NONE
         /\ simulatorAiRegistrations' = {}
         /\ statusMessage'.kind = "failed"
         /\ statusMessage'.url = reply
         /\ statusMessage'.error \in Errors
         /\ retryShots' = retryShots + 1
         /\ retryDelay' = 180 ]_vars

\* C4 witness: the failure of the servers fetch, the last stage of a chain, was
\* handled
C4_Witness ==
  /\ emitted = <<"qWarning downloadFailed">>
  /\ statusMessage.kind = "failed"
  /\ statusMessage.url = "servers"
  /\ retryShots = 1

\* C5: after the fetch of the status document failed, and as long as neither an
\* option change nor a call of startProcessing (the retry) happens, currentState
\* stays NONE and no fetch is issued.
C5_NothingUntilRetry ==
  [][ (/\ statusMessage.kind = "failed"
       /\ statusMessage.url = "status"
       /\ currentState = NONE
       /\ retryShots > 0
       /\ ~Reset
       /\ ~RetryTimeout
       /\ ~StartProcessing)
      => (currentState' = NONE /\ (reply' = reply \/ reply' = NoReply)) ]_vars

\* C6: at most one failure retry is pending in every reachable state.
C6_AtMostOneRetryPending == retryShots <= 1

\* C7: after a hard reset or a failure no timer started before it is pending:
\* the re-poll timer is stopped, no retry armed earlier is left, and the only
\* deferred startDownload is the one of the cycle the reset itself started.
C7_NoTimerSurvivesCancel ==
  [][ /\ Reset => /\ ~timerActive'
                  /\ retryShots' = 0
                  /\ startShots' = (IF reply' = NoReply /\ currentState' # NONE /\ downloaderUrl' # "" THEN 1 ELSE 0)
      /\ DownloadFailed => /\ ~timerActive'
                           /\ retryShots' = 1
                           /\ startShots' = 0 ]_vars

\* A completion delivered in the whazzup stage whose payload doc is not newer
\* than the last accepted one
RejectedWhazzup(doc) ==
  /\ currentState = DOWNLOADING_WHAZZUP
  /\ reply \notin {NoReply, ""}
  /\ doc.timestamp <= manager.lastUpdate
  /\ Set(downloadFinished([Cur EXCEPT !.reply = NoReply], doc))

\* C8: a whazzup payload that is not newer than the last accepted one (in
\* particular one with the same timestamp) emits no signal and leaves
\* aircraftCache, simulatorAiRegistrations and clientCallsignAndPosMap alone.
C8_RejectedPayloadChangesNothing ==
  [][ \A doc \in WhazzupDocs :
        RejectedWhazzup(doc)
        => /\ NoSignal(emitted')
           /\ UNCHANGED <<aircraftCache, simulatorAiRegistrations, clientCallsignAndPosMap>> ]_vars

\* C8 witness: a payload was rejected while cache, registrations and position
\* map were filled
C8_Witness ==
  /\ emitted = <<"qInfo whazzup.txt is not recent">>
  /\ aircraftCache.list # {}
  /\ simulatorAiRegistrations # {}
  /\ clientCallsignAndPosMap # {}

\* C9: a rejected whazzup payload ends the cycle: currentState is NONE, the
\* re-poll timer runs, and no fetch (so no servers fetch) is scheduled.
C9_RejectedPayloadEndsCycle ==
  [][ \A doc \in WhazzupDocs :
        RejectedWhazzup(doc)
        => /\ currentState' = NONE
           /\ timerActive'
           /\ startShots' = startShots
           /\ reply' = NoReply
           /\ downloaderUrl' = downloaderUrl ]_vars

\* C9 witness: a payload was rejected in a situation in which an accepted one
\* would have led to the servers stage
C9_Witness ==
  /\ emitted = <<"qInfo whazzup.txt is not recent">>
  /\ currentState = NONE
  /\ timerActive
  /\ convertFormat(opts.format) = "VATSIM"
  /\ manager.voiceUrl # ""
  /\ lastServerDownload < now - 15 * 60

\* Scenario A: legacy VATSIM text format with a status URL
LegacyStatusConfig ==
  /\ opts.network # "ONLINE_NONE"
  /\ convertFormat(opts.format) = "VATSIM"
  /\ opts.statusUrl # ""

\* A start from NONE with no whazzup URL known enters the status stage
ScenarioAStart ==
  /\ (currentState = NONE /\ reply = NoReply /\ LegacyStatusConfig
        /\ manager.whazzupUrl = "" /\ StartCall)
       => currentState' = DOWNLOADING_STATUS
  /\ (LegacyStatusConfig' /\ currentState' # DOWNLOADING_STATUS) => ~Reset

\* A status document with a whazzup URL that is not JSON leads to the whazzup stage
ScenarioAStatus ==
  (LegacyStatusConfig /\ currentState = DOWNLOADING_STATUS
     /\ ~manager'.json /\ manager'.whazzupUrl # "" /\ DownloadFinished)
    => (currentState' = DOWNLOADING_WHAZZUP /\ NoSignal(emitted'))

\* The server fetch is due
ScenarioAServersDue ==
  manager.voiceUrl # "" /\ lastServerDownload < now - 15 * 60

\* The completion of the whazzup stage accepted the payload
ScenarioAAccepted ==
  /\ LegacyStatusConfig
  /\ currentState = DOWNLOADING_WHAZZUP
  /\ manager'.lastUpdate > manager.lastUpdate
  /\ DownloadFinished

UpdatedOnce(seq) == \A signal \in UpdatedSignals : Count(seq, signal) = 1

\* The servers stage ends in NONE with the notifications
ScenarioAServers ==
  (LegacyStatusConfig /\ currentState = DOWNLOADING_WHAZZUP_SERVERS /\ DownloadFinished)
    => (currentState' = NONE /\ UpdatedOnce(emitted'))

\* C10 as stated: the cycle visits NONE, STATUS, WHAZZUP, (SERVERS if due), NONE
\* and the updated notifications are emitted when the whazzup stage completes
\* and again when the servers stage completes.
C10_NotifiedAfterWhazzupAndServers ==
  [][ /\ ScenarioAStart
      /\ ScenarioAStatus
      /\ ScenarioAAccepted
           => /\ currentState' = (IF ScenarioAServersDue THEN DOWNLOADING_WHAZZUP_SERVERS
                                  ELSE NONE)
              /\ UpdatedOnce(emitted')
      /\ ScenarioAServers ]_vars

\* C10 amended: the cycle visits NONE, STATUS, WHAZZUP, (SERVERS if due), NONE
\* and the updated notifications are emitted once, by the completion that ends
\* the cycle: by the whazzup completion if the servers stage is not visited, by
\* the servers completion only if it is.
C10_NotifiedAtCycleEnd ==
  [][ /\ ScenarioAStart
      /\ ScenarioAStatus
      /\ ScenarioAAccepted
           => IF ScenarioAServersDue
              THEN currentState' = DOWNLOADING_WHAZZUP_SERVERS /\ NoSignal(emitted')
              ELSE currentState' = NONE /\ UpdatedOnce(emitted')
      /\ ScenarioAServers ]_vars

\* C10 witness: the servers stage of a legacy cycle has completed
C10_Witness ==
  /\ emitted = <<"onlineClientAndAtcUpdated", "onlineServersUpdated">>
  /\ LegacyStatusConfig
  /\ currentState = NONE
  /\ lastServerDownload = now

-----------------------------------------------------------------------------
(* Scenario B and the timestamps *)

JsonFormats == {"VATSIM_JSON3", "IVAO_JSON2"}

\* Scenario B: VATSIM JSON format with a network selected
VatsimJsonConfig ==
  /\ opts.network # "ONLINE_NONE"
  /\ convertFormat(opts.format) = "VATSIM_JSON3"

\* An earlier transceiver fetch is older than the reload interval
TransceiversStale ==
  /\ lastUpdateTimeTransceivers # InvalidTime
  /\ lastUpdateTimeTransceivers
       < now - (IF opts.transceiverReload = 0 - 1 THEN 5 * 60 ELSE opts.transceiverReload)

\* A start from NONE with stale transceivers enters the transceiver stage
ScenarioBStart ==
  (currentState = NONE /\ reply = NoReply /\ VatsimJsonConfig /\ TransceiversStale
     /\ StartCall)
    => currentState' = DOWNLOADING_TRANSCEIVERS

\* The transceiver completion leads to the whazzup stage
ScenarioBTransceivers ==
  (currentState = DOWNLOADING_TRANSCEIVERS /\ DownloadFinished)
    => (currentState' = DOWNLOADING_WHAZZUP /\ NoSignal(emitted'))

\* With a JSON format the whazzup completion ends the cycle
ScenarioBWhazzup ==
  (currentState = DOWNLOADING_WHAZZUP /\ convertFormat(opts.format) \in JsonFormats
     /\ DownloadFinished)
    => currentState' = NONE

\* C11: with the VATSIM JSON format and stale transceiver data a cycle started
\* from NONE visits NONE, TRANSCEIVERS, WHAZZUP, NONE, the transceiver completion
\* always leading to the whazzup stage, and with a JSON format currentState is
\* never DOWNLOADING_WHAZZUP_SERVERS.
C11_TransceiversThenWhazzup ==
  [][ /\ ScenarioBStart
      /\ ScenarioBTransceivers
      /\ ScenarioBWhazzup
      /\ convertFormat(opts'.format) \in JsonFormats
           => currentState' # DOWNLOADING_WHAZZUP_SERVERS ]_vars

\* C11 witness: the transceiver stage of a cycle that started with it has
\* completed: the cycle before it ended a clock step ago with an accepted whazzup
\* payload, and this cycle has fetched the transceivers
C11_Witness ==
  /\ VatsimJsonConfig
  /\ currentState = DOWNLOADING_WHAZZUP
  /\ lastUpdateTimeTransceivers = now
  /\ lastUpdateTime = StartTime
  /\ now > StartTime
  /\ manager.lastUpdate > 0
  /\ emitted = <<>>

-----------------------------------------------------------------------------
(* The re-poll interval: startDownloadTimer applied to its inputs *)

\* Largest reload hint in minutes a whazzup payload carries
MaxReloadMinutes == 3

Networks ==
  {"ONLINE_VATSIM", "ONLINE_IVAO", "ONLINE_PILOTEDGE", "ONLINE_CUSTOM_STATUS", "ONLINE_CUSTOM"}

CustomNetworks == {"ONLINE_CUSTOM_STATUS", "ONLINE_CUSTOM"}

\* Values of OptionData::getOnlineReload: automatic, and intervals around the
\* minimum reload time
ReloadValues ==
  {0 - 1, 1, MIN_RELOAD_TIME_SECONDS - 1, MIN_RELOAD_TIME_SECONDS,
   MIN_RELOAD_TIME_SECONDS + 1, 60, 180}

TimerOptions ==
  { Option(n, "ONLINE_FORMAT_VATSIM", "", "whazzup", "", r, 0 - 1, Display(0 - 1, 0 - 1)) :
      n \in Networks, r \in ReloadValues }

TimerInit ==
  /\ currentState = NONE
  /\ whazzupUrlFromStatus = ""
  /\ lastUpdateTime = Epoch
  /\ lastUpdateTimeTransceivers = InvalidTime
  /\ lastServerDownload = Epoch
  /\ clientCallsignAndPosMap = {}
  /\ aircraftCache = EmptyCache
  /\ simulatorAiRegistrations = {}
  /\ simulatorAiOrder = <<>>
  /\ timerActive = FALSE
  /\ timerInterval = 0
  /\ downloaderUrl = ""
  /\ reply = NoReply
  /\ startShots = 0
  /\ retryShots = 0
  /\ retryDelay = 0
  /\ opts \in TimerOptions
  /\ \E m \in 0 .. MaxReloadMinutes :
       manager = [updateAtcSizes([manager |-> EmptyManager, opts |-> opts]).manager
                    EXCEPT !.reloadMinutes = m]
  /\ now = StartTime
  /\ statusMessage = [kind |-> "", url |-> "", error |-> ""]
  /\ queryResult = NoResult
  /\ ignoreSslErrors = FALSE
  /\ visited = {}
  /\ db = DatabaseManagerInit("FSX", "NAVDATABASE_MIXED")
  /\ emitted = <<>>

\* startDownloadTimer as the end of a cycle calls it
StartDownloadTimer ==
  /\ ~timerActive
  /\ Set(startDownloadTimer(Cur))

\* downloadTimer.stop() as the start of a cycle calls it
StopTimer ==
  /\ timerActive
  /\ Set(stopTimer(Cur))

TimerNext == StartDownloadTimer \/ StopTimer

TimerSpec == TimerInit /\ [][TimerNext]_vars

\* C12: for every custom network and every configured interval the re-poll
\* interval set by startDownloadTimer is max(configuredInterval,
\* MIN_RELOAD_TIME_SECONDS), whatever the reload hint of the payload.
C12_CustomIntervalFloored ==
  (timerActive /\ opts.network \in CustomNetworks /\ opts.reload # 0 - 1)
    => timerInterval = Max(opts.reload, 15)

\* C13: for every network that is not custom the re-poll interval set by
\* startDownloadTimer is max(m * 60, 60) seconds if the configured interval is -1,
\* m being the reload minutes of the whazzup payload, and max(configuredInterval,
\* MIN_RELOAD_TIME_SECONDS) if an interval is configured.
C13_NetworkInterval ==
  (timerActive /\ opts.network \notin CustomNetworks)
    => timerInterval = (IF opts.reload = 0 - 1
                        THEN Max(manager.reloadMinutes * 60, 60)
                        ELSE Max(opts.reload, 15))

\* C13 witness: the timer runs with a configured interval below the minimum
\* raised to the minimum, although the payload asks for more
C13_Witness ==
  /\ timerActive
  /\ opts.network = "ONLINE_VATSIM"
  /\ opts.reload = 14
  /\ manager.reloadMinutes = 2
  /\ timerInterval = 15

-----------------------------------------------------------------------------
(* The hard reset *)

\* What optionsChanged leaves behind: no request in flight, empty caches, no URL
\* of a status document in the manager, the sizes of the new options
ResetCleared ==
  /\ reply' = NoReply
  /\ clientCallsignAndPosMap' = {}
  /\ aircraftCache'.list = {}
  /\ simulatorAiRegistrations' = {}
  /\ manager'.whazzupUrl = ""
  /\ manager'.atcSize["UNKNOWN"] = 0 - 1
  /\ \A t \in {"OBSERVER", "TOWER"} :
       manager'.atcSize[t] = (IF opts'.display[t] = 0 - 1 THEN 0 - 1
                              ELSE Max(1, opts'.display[t] \div 2))

\* A new cycle has been started: a first stage, NONE only without network or URL
ResetStarted ==
  /\ currentState' \in {NONE, DOWNLOADING_STATUS, DOWNLOADING_TRANSCEIVERS,
                        DOWNLOADING_WHAZZUP}
  /\ opts'.network = "ONLINE_NONE" => currentState' = NONE
  /\ currentState' = NONE
       => (opts'.network = "ONLINE_NONE"
           \/ (opts'.statusUrl = "" /\ opts'.whazzupUrl = ""))

\* A reset emits three signals; that test comes first to spare evaluating the
\* handler for the other steps.
ResetStep == Len(emitted') = 3 /\ Reset

C15_ResetForgetsTimestamps ==
  [][ ResetStep
      => /\ lastUpdateTime' = Epoch
         /\ lastServerDownload' = Epoch
         /\ lastUpdateTimeTransceivers' \in {Epoch, InvalidTime}
         /\ currentState' # DOWNLOADING_TRANSCEIVERS ]_vars

\* C16: stopAllProcesses applied twice gives the state it gives applied once,
\* from every reachable state, and it leaves currentState NONE, the re-poll timer
\* stopped and no request in flight, so that the guard of a startDownloadInternal
\* right after it does not reject.
C16_StopIsIdempotent ==
  LET c == stopAllProcesses(Cur)
  IN /\ stopAllProcesses(c) = c
     /\ c.currentState = NONE
     /\ ~c.timerActive
     /\ c.timerInterval = 0
     /\ c.reply = NoReply
     /\ startDownloadInternal(c).emitted = <<>>

\* C16 witness: optionsChanged stopped everything and the startDownloadInternal
\* it calls, which stops everything once more, was not rejected
C16_Witness ==
  /\ emitted = <<"onlineClientAndAtcUpdated", "onlineServersUpdated", "onlineNetworkChanged">>
  /\ currentState = DOWNLOADING_WHAZZUP
  /\ ~timerActive
  /\ reply = NoReply
  /\ startShots = 1

-----------------------------------------------------------------------------
(* Caches *)

\* C17: aircraftCache and simulatorAiRegistrations move in lockstep: a step that
\* empties one of them (option change, completed cycle, failure or cancellation
\* through stopAllProcesses, changed registrations in getAircraft) leaves the
\* other empty too.
C17_ClearedTogether ==
  [][ /\ (simulatorAiRegistrations # {} /\ simulatorAiRegistrations' = {})
           => aircraftCache'.list = {}
      /\ (aircraftCache.list # {} /\ aircraftCache'.list = {})
           => simulatorAiRegistrations' = {} ]_vars

\* A completion delivered in the whazzup stage whose payload doc is newer than
\* the last accepted one
AcceptedWhazzup(doc) ==
  /\ currentState = DOWNLOADING_WHAZZUP
  /\ reply \notin {NoReply, ""}
  /\ doc.timestamp > manager.lastUpdate
  /\ Set(downloadFinished([Cur EXCEPT !.reply = NoReply], doc))

\* C18: clientCallsignAndPosMap is the map of the most recently accepted whazzup
\* payload since the last option reset: an accepted payload replaces it, a reset
\* empties it, and nothing else (rejected payloads, failures, completions of the
\* other stages, starts, queries) changes it.
C18_PositionMapOfLastAccepted ==
  [][ /\ clientCallsignAndPosMap' # {} => ~ResetStep
      /\ \A doc \in WhazzupDocs :
           AcceptedWhazzup(doc) => clientCallsignAndPosMap' = doc.clients
      /\ clientCallsignAndPosMap' # clientCallsignAndPosMap
           => \/ Reset
              \/ /\ currentState = DOWNLOADING_WHAZZUP
                 /\ manager'.lastUpdate > manager.lastUpdate
                 /\ DownloadFinished ]_vars

\* C18 witness: a fetch failed after a payload with clients had been accepted,
\* and the map is still filled
C18_Witness ==
  /\ emitted = <<"qWarning downloadFailed">>
  /\ clientCallsignAndPosMap # {}
  /\ clientCallsignAndPosMap = manager.clients
  /\ manager.lastUpdate > 0

-----------------------------------------------------------------------------
(* getAircraft applied to its inputs *)

\* Client tables of the online database: positions one and two steps apart from
\* the simulator's
AircraftClientTables ==
  { {<<"N1", 1>>, <<"N2", 0>>},
    {<<"N1", 0>>, <<"N2", 1>>, <<"N3", 2>>} }

\* AI aircraft lists of the simulator: none, one, two in either order, and one
\* without registration
AiLists ==
  { <<>>,
    << <<"N2", 1>> >>,
    << <<"N2", 2>>, <<"N3", 2>> >>,
    << <<"N3", 2>>, <<"N2", 2>> >>,
    << <<"", 0>>, <<"N2", 0>> >> }

AircraftSims ==
  { Sim(userReg, userPos, connected, ai) :
      userReg \in {"", "N1"}, userPos \in 0 .. 1, connected \in BOOLEAN, ai \in AiLists }

AircraftRects == 1 .. MaxRect + 1

\* The controller at rest with a filled online database
AircraftInit ==
  /\ currentState = NONE
  /\ whazzupUrlFromStatus = ""
  /\ lastUpdateTime = Epoch
  /\ lastUpdateTimeTransceivers = InvalidTime
  /\ lastServerDownload = Epoch
  /\ aircraftCache = EmptyCache
  /\ simulatorAiRegistrations = {}
  /\ simulatorAiOrder = <<>>
  /\ timerActive = FALSE
  /\ timerInterval = 0
  /\ downloaderUrl = ""
  /\ reply = NoReply
  /\ startShots = 0
  /\ retryShots = 0
  /\ retryDelay = 0
  /\ opts \in {o \in Options : o.network = "ONLINE_VATSIM"}
  /\ \E clients \in AircraftClientTables :
       /\ manager = [updateAtcSizes([manager |-> EmptyManager, opts |-> opts]).manager
                      EXCEPT !.clients = clients, !.lastUpdate = 1]
       /\ clientCallsignAndPosMap = clients
  /\ now = StartTime
  /\ statusMessage = [kind |-> "", url |-> "", error |-> ""]
  /\ queryResult = NoResult
  /\ ignoreSslErrors = FALSE
  /\ visited = {}
  /\ db = DatabaseManagerInit("FSX", "NAVDATABASE_MIXED")
  /\ emitted = <<>>

\* One call of getAircraft
Query(rect, lazy, sim, layout) == Set(getAircraft(Cur, rect, lazy, sim, layout))

AircraftQuery ==
  \E rect \in AircraftRects, lazy \in BOOLEAN, sim \in AircraftSims, layout \in BOOLEAN :
    Query(rect, lazy, sim, layout)

\* A cycle starts or a download fails: stopAllProcesses
AircraftStop ==
  /\ simulatorAiRegistrations # {}
  /\ Set(stopAllProcesses(Cur))

AircraftNext == AircraftQuery \/ AircraftStop

AircraftSpec == AircraftInit /\ [][AircraftNext]_vars

\* The cache as updateCache leaves it keeps its list: the query is lazy or the
\* cached rectangle covers the queried one
CacheCovers(rect, lazy) ==
  lazy \/ (aircraftCache.rect # 0 /\ rect <= aircraftCache.rect)

C20_ExcludedIffCloser ==
  [][ \A rect \in AircraftRects, sim \in AircraftSims, layout \in BOOLEAN :
        (aircraftCache.list = {} /\ Query(rect, FALSE, sim, layout))
        => aircraftCache'.list
             = { cl \in manager.clients :
                   /\ cl[2] <= rect
                   /\ ~ \E r \in curRegistrations(sim) :
                          /\ r[1] = cl[1]
                          /\ distanceMeterTo(cl[2], r[2]) < 55560 } ]_vars

-----------------------------------------------------------------------------
(* The shadow functions applied to their inputs *)

\* Simulator aircraft: a registration the online database has and one it has
\* not, at the position of the online client, at the threshold and beyond it
ShadowRegistrations == {"N2", "N4"}

ShadowAircraft ==
  { SimAircraft(reg, pos, shadow) :
      reg \in ShadowRegistrations, pos \in Positions, shadow \in BOOLEAN }

\* The caller's record before getShadowAircraft
OnlineClients == { OnlineAircraft("", InvalidPos), OnlineAircraft("N1", 2) }

\* Online aircraft lists handed to filterOnlineShadowAircraft
OnlineLists ==
  { << OnlineAircraft("N1", 1), OnlineAircraft("N2", 0), OnlineAircraft("N3", 2) >>,
    << OnlineAircraft("N2", 1), OnlineAircraft("N1", 0) >> }

\* Simulator aircraft lists handed to filterOnlineShadowAircraft: no aircraft, a
\* shadow of N2 at three distances, one that is not flagged, and two aircraft
\* with the same registration
SimLists ==
  { <<>>,
    << SimAircraft("N2", 0, TRUE) >>,
    << SimAircraft("N2", 1, TRUE), SimAircraft("N1", 1, FALSE) >>,
    << SimAircraft("N2", 2, TRUE) >>,
    << SimAircraft("N2", 0, FALSE) >>,
    << SimAircraft("N2", 0, TRUE), SimAircraft("N2", 2, TRUE) >> }

ShadowInit == AircraftInit

IsShadowAircraft(simAircraft) ==
  Set([Cur EXCEPT !.queryResult =
         [op |-> "isShadowAircraft", simAircraft |-> simAircraft,
          ret |-> isShadowAircraft(Cur, simAircraft)]])

GetShadowAircraft(onlineClient, simAircraft) ==
  Set(getShadowAircraft(Cur, onlineClient, simAircraft))

FilterOnlineShadowAircraft(onlineAircraft, simAircraft) ==
  Set([Cur EXCEPT !.queryResult =
         [op |-> "filterOnlineShadowAircraft",
          onlineAircraft |-> filterOnlineShadowAircraft(Cur, onlineAircraft, simAircraft)]])

ShadowIs == \E simAircraft \in ShadowAircraft : IsShadowAircraft(simAircraft)

ShadowGet ==
  \E onlineClient \in OnlineClients, simAircraft \in ShadowAircraft :
    GetShadowAircraft(onlineClient, simAircraft)

ShadowFilter ==
  \E onlineAircraft \in OnlineLists, simAircraft \in SimLists :
    FilterOnlineShadowAircraft(onlineAircraft, simAircraft)

ShadowNext == GetAircraft \/ AircraftStop \/ ShadowIs \/ ShadowGet \/ ShadowFilter

ShadowSpec == ShadowInit /\ [][ShadowNext]_vars

\* C21: filterOnlineShadowAircraft removes an online aircraft iff some simulator
\* aircraft of the list handed to it is flagged as online shadow, has the same
\* registration and is within the minimum distance of it, in every state of the
\* controller, also when simulatorAiRegistrations has just been emptied; the
\* other online aircraft are kept in their order.
C21_RemovedIffCloseShadow ==
  [][ \A onlineAircraft \in OnlineLists, simAircraft \in SimLists :
        (/\ queryResult'.op = "filterOnlineShadowAircraft"
         /\ FilterOnlineShadowAircraft(onlineAircraft, simAircraft))
        => LET kept(aircraft) ==
                 ~ \E i \in 1 .. Len(simAircraft) :
                     /\ simAircraft[i].shadow
                     /\ simAircraft[i].reg = aircraft.reg
                     /\ distanceMeterTo(aircraft.pos, simAircraft[i].pos) <= 55560
           IN queryResult'.onlineAircraft = SelectSeq(onlineAircraft, kept) ]_vars

\* C22: isShadowAircraft returns true iff the simulator aircraft is flagged as
\* online shadow, or clientCallsignAndPosMap holds a valid position for its
\* registration whose distance to the aircraft's position is below
\* MIN_DISTANCE_DUPLICATE_M.
C22_ShadowByFlagOrPosition ==
  [][ \A simAircraft \in ShadowAircraft :
        (queryResult'.op = "isShadowAircraft" /\ IsShadowAircraft(simAircraft))
        => queryResult'.ret
             = (\/ simAircraft.shadow
                \/ \E e \in clientCallsignAndPosMap :
                     /\ e[1] = simAircraft.reg
                     /\ e[2] # InvalidPos
                     /\ distanceMeterTo(e[2], simAircraft.pos) < 55560) ]_vars

\* C22 witness: an aircraft that is not flagged was found to be a shadow by its
\* position
C22_Witness ==
  /\ queryResult.op = "isShadowAircraft"
  /\ ~queryResult.simAircraft.shadow
  /\ queryResult.ret

\* C23: getShadowAircraft returns true only for a shadow with a client record of
\* its registration, and the record returned then has the position of the
\* simulator aircraft; for a shadow without client record and for an aircraft
\* that is no shadow it returns false and leaves the caller's record as it was.
C23_ShadowNeedsClientRecord ==
  [][ \A onlineClient \in OnlineClients, simAircraft \in ShadowAircraft :
        (queryResult'.op = "getShadowAircraft" /\ GetShadowAircraft(onlineClient, simAircraft))
        => IF /\ isShadowAircraft(Cur, simAircraft)
              /\ \E cl \in manager.clients : cl[1] = simAircraft.reg
           THEN /\ queryResult'.ret
                /\ queryResult'.onlineClient.reg = simAircraft.reg
                /\ queryResult'.onlineClient.pos = simAircraft.pos
           ELSE /\ ~queryResult'.ret
                /\ queryResult'.onlineClient = onlineClient ]_vars

\* C23 witness: a shadow away from the position of its client record was
\* resolved, the record returned has the simulator's position
C23_Witness ==
  /\ queryResult.op = "getShadowAircraft"
  /\ queryResult.ret
  /\ queryResult.onlineClient.pos = queryResult.simAircraft.pos
  /\ <<queryResult.simAircraft.reg, queryResult.simAircraft.pos>> \notin manager.clients

-----------------------------------------------------------------------------
(* The facility sizes: updateAtcSizes applied to its inputs *)

\* Largest circle diameter the options are given
MaxDiameter == 5

\* Values of the getDisplayOnline functions: unset, other negative values, zero
\* and diameters with even and odd halves
Diameters == (0 - 3) .. MaxDiameter

AtcOptions ==
  { Option(n, "ONLINE_FORMAT_IVAO_JSON", "", "whazzup", "", 0 - 1, 0 - 1, Display(o, t)) :
      n \in {"ONLINE_NONE", "ONLINE_IVAO"}, o \in Diameters, t \in Diameters }

\* The constructor has called updateAtcSizes with no size configured
AtcInit ==
  /\ currentState = NONE
  /\ whazzupUrlFromStatus = ""
  /\ lastUpdateTime = Epoch
  /\ lastUpdateTimeTransceivers = InvalidTime
  /\ lastServerDownload = Epoch
  /\ clientCallsignAndPosMap = {}
  /\ aircraftCache = EmptyCache
  /\ simulatorAiRegistrations = {}
  /\ simulatorAiOrder = <<>>
  /\ timerActive = FALSE
  /\ timerInterval = 0
  /\ downloaderUrl = ""
  /\ reply = NoReply
  /\ startShots = 0
  /\ retryShots = 0
  /\ retryDelay = 0
  /\ opts \in {o \in AtcOptions : o.display = Display(0 - 1, 0 - 1)}
  /\ manager = updateAtcSizes([manager |-> EmptyManager, opts |-> opts]).manager
  /\ now = StartTime
  /\ statusMessage = [kind |-> "", url |-> "", error |-> ""]
  /\ queryResult = NoResult
  /\ ignoreSslErrors = FALSE
  /\ visited = {}
  /\ db = DatabaseManagerInit("FSX", "NAVDATABASE_MIXED")
  /\ emitted = <<>>

\* The options dialog stored new sizes: optionsChanged calls updateAtcSizes
AtcOptionsChanged ==
  \E o \in AtcOptions : Step(optionsChanged([Cur EXCEPT !.opts = o]))

AtcNext == AtcOptionsChanged \/ StartDownload

AtcSpec == AtcInit /\ [][AtcNext]_vars

\* C24: the map updateAtcSizes hands to the manager has an entry for every
\* facility type; a configured diameter d below zero gives the default marker -1,
\* any other d the radius max(1, d / 2), and UNKNOWN always gives the marker.
C24_NegativeDiameterIsDefault ==
  /\ DOMAIN manager.atcSize = FacilityTypes
  /\ manager.atcSize["UNKNOWN"] = 0 - 1
  /\ \A t \in {"OBSERVER", "TOWER"} :
       manager.atcSize[t] = (IF opts.display[t] < 0 THEN 0 - 1
                             ELSE Max(1, opts.display[t] \div 2))

-----------------------------------------------------------------------------
(* The transitions of the download chain *)

\* The first stage as the priorities give it: transceivers, status, whazzup
FirstStageByPriority ==
  IF convertFormat(opts.format) = "VATSIM_JSON3" /\ TransceiversStale
  THEN DOWNLOADING_TRANSCEIVERS
  ELSE IF manager.whazzupUrl = "" /\ opts.statusUrl # ""
       THEN DOWNLOADING_STATUS
       ELSE IF opts.whazzupUrl # "" \/ manager.whazzupUrl # ""
            THEN DOWNLOADING_WHAZZUP
            ELSE NONE

\* A start that the guard lets pass, with a network selected
AcceptedStart ==
  /\ currentState = NONE
  /\ reply = NoReply
  /\ opts.network # "ONLINE_NONE"
  /\ StartCall

\* C25: a cycle started from NONE with a network configured enters
\* DOWNLOADING_TRANSCEIVERS iff the format is VATSIM JSON and an earlier
\* transceiver fetch is older than the reload interval (configured, or 5 minutes
\* for -1); else DOWNLOADING_STATUS iff no whazzup URL is known from the status
\* and a status URL is configured; else DOWNLOADING_WHAZZUP iff a whazzup URL is
\* known from the configuration or the status, the one of the status being
\* taken first; else it stays NONE.
C25_FirstStageByPriority ==
  [][ (AcceptedStart \/ (opts'.network # "ONLINE_NONE" /\ ResetStep))
      => /\ currentState' = FirstStageByPriority'
         /\ currentState' = DOWNLOADING_WHAZZUP
              => downloaderUrl' = (IF manager'.whazzupUrl # "" THEN manager'.whazzupUrl
                                   ELSE opts'.whazzupUrl) ]_vars

\* C25 witness: after a cycle that accepted a payload the next one started at
\* the whazzup stage with the URL of the status document, although a whazzup URL
\* is configured too
C25_Witness ==
  /\ currentState = DOWNLOADING_WHAZZUP
  /\ startShots = 1
  /\ reply = NoReply
  /\ manager.lastUpdate > 0
  /\ opts.whazzupUrl = "whazzup"
  /\ downloaderUrl = "whazzupFromStatus"

\* A completion delivered in the status stage with the status document doc
FinishedStatus(doc) ==
  /\ currentState = DOWNLOADING_STATUS
  /\ reply \notin {NoReply, ""}
  /\ Set(downloadFinished([Cur EXCEPT !.reply = NoReply], doc))

\* C26: the completion of the status fetch leads to DOWNLOADING_TRANSCEIVERS if
\* the status indicates JSON, else to DOWNLOADING_WHAZZUP if the status has a
\* whazzup URL, else to NONE with the re-poll timer restarted, no updated
\* notification and no cache cleared.
C26_AfterStatus ==
  [][ \A doc \in StatusDocs :
        FinishedStatus(doc)
        => IF doc.json THEN currentState' = DOWNLOADING_TRANSCEIVERS
           ELSE IF doc.whazzupUrl # "" THEN currentState' = DOWNLOADING_WHAZZUP
           ELSE /\ currentState' = NONE
                /\ timerActive'
                /\ NoSignal(emitted')
                /\ UNCHANGED <<aircraftCache, simulatorAiRegistrations,
                               clientCallsignAndPosMap>> ]_vars

\* C26 witness: a status document without whazzup URL ended the cycle while the
\* registrations of a query made during the fetch were kept
C26_Witness ==
  /\ currentState = NONE
  /\ timerActive
  /\ lastUpdateTime = now
  /\ opts.statusUrl # ""
  /\ manager.whazzupUrl = ""
  /\ manager.lastUpdate = 0
  /\ simulatorAiRegistrations # {}
  /\ emitted = <<>>

\* A completion delivered in the whazzup stage with the payload doc
FinishedWhazzup(doc) ==
  /\ currentState = DOWNLOADING_WHAZZUP
  /\ reply \notin {NoReply, ""}
  /\ Set(downloadFinished([Cur EXCEPT !.reply = NoReply], doc))

\* A completion delivered in the servers stage
FinishedServers ==
  /\ currentState = DOWNLOADING_WHAZZUP_SERVERS
  /\ DownloadFinished

\* C27: the whazzup completion leads to DOWNLOADING_WHAZZUP_SERVERS iff the
\* payload was accepted, the format is neither VATSIM JSON nor IVAO JSON, the
\* status document gave a voice server URL and lastServerDownload is older than
\* 15 minutes; lastServerDownload is set only by a servers completion (and the
\* option reset), so a servers completion comes at least 15 minutes after the
\* one before it unless the options changed in between.
C27_ServersEveryQuarterHour ==
  [][ /\ \A doc \in WhazzupDocs :
           FinishedWhazzup(doc)
           => (currentState' = DOWNLOADING_WHAZZUP_SERVERS
                 <=> /\ doc.timestamp > manager.lastUpdate
                     /\ convertFormat(opts.format) \notin JsonFormats
                     /\ manager.voiceUrl # ""
                     /\ lastServerDownload < now - 15 * 60)
      /\ lastServerDownload' # lastServerDownload
           => (FinishedServers \/ Reset)
      /\ FinishedServers
           => /\ lastServerDownload' = now
              /\ now - lastServerDownload >= 15 * 60
              /\ currentState' = NONE ]_vars

\* C27 witness: a servers fetch was completed, and a clock step later the
\* whazzup completion of another cycle led to the servers stage again
C27_Witness ==
  /\ currentState = DOWNLOADING_WHAZZUP_SERVERS
  /\ lastServerDownload = StartTime
  /\ now > StartTime
  /\ emitted = <<>>

\* What the end of a cycle with new data leaves: empty cache and registrations,
\* each of the two updated signals once
CycleEndAnnounced ==
  /\ aircraftCache'.list = {}
  /\ simulatorAiRegistrations' = {}
  /\ UpdatedOnce(emitted')

\* C28 as stated: every cycle that ends in NONE after an accepted whazzup
\* payload, from the whazzup stage or from the servers stage, clears
\* aircraftCache and simulatorAiRegistrations and emits onlineServersUpdated and
\* onlineClientAndAtcUpdated once each; the completion of the servers stage
\* always leads to NONE.
C28_EveryCycleEndAnnounced ==
  [][ /\ \A doc \in WhazzupDocs :
           (AcceptedWhazzup(doc) /\ currentState' = NONE) => CycleEndAnnounced
      /\ (currentState = DOWNLOADING_WHAZZUP_SERVERS /\ currentState' = NONE)
           => CycleEndAnnounced
      /\ FinishedServers => currentState' = NONE ]_vars

\* C28 amended: every cycle that a completion ends in NONE after an accepted
\* whazzup payload clears both and emits both signals once, the whazzup
\* completion that leads to the servers stage emitting none; the completion of
\* the servers stage always leads to NONE. A cycle that the failure of the
\* servers fetch ends is not announced and keeps the aircraft cache.
C28_CompletedCycleAnnounced ==
  [][ /\ \A doc \in WhazzupDocs :
           AcceptedWhazzup(doc)
           => IF currentState' = NONE THEN CycleEndAnnounced
              ELSE currentState' = DOWNLOADING_WHAZZUP_SERVERS /\ NoSignal(emitted')
      /\ FinishedServers => (currentState' = NONE /\ CycleEndAnnounced)
      /\ (currentState = DOWNLOADING_WHAZZUP_SERVERS /\ DownloadFailed)
           => (currentState' = NONE /\ NoSignal(emitted')
               /\ aircraftCache' = aircraftCache) ]_vars

\* C28 witness: an accepted payload with clients ended the cycle from the
\* whazzup stage
C28_Witness ==
  /\ emitted = <<"onlineServersUpdated", "onlineClientAndAtcUpdated">>
  /\ currentState = NONE
  /\ timerActive
  /\ aircraftCache = EmptyCache
  /\ simulatorAiRegistrations = {}
  /\ manager.clients # {}

\* C29: the re-poll timer is started only by a downloadFinished that leads to
\* NONE; a completion that continues the chain leaves the timer stopped and
\* schedules the next fetch as a deferred event instead of starting it inside
\* the handler; so a running re-poll timer implies currentState = NONE.
C29_TimerRunsOnlyAtRest ==
  [][ /\ (timerActive' /\ (~timerActive \/ timerInterval' # timerInterval))
           => (currentState' = NONE /\ DownloadFinished)
      /\ (currentState' # NONE /\ reply # NoReply /\ DownloadFinished)
           => /\ ~timerActive'
              /\ startShots' = startShots + 1
              /\ reply' = NoReply
      /\ timerActive => currentState = NONE
      /\ timerActive' => currentState' = NONE ]_vars

\* C29 witness: a cycle ended at the status stage and started the timer, the
\* next cycle stopped it, and the status completion of that cycle has scheduled
\* the whazzup fetch
C29_Witness ==
  /\ currentState = DOWNLOADING_WHAZZUP
  /\ downloaderUrl = "whazzupFromStatus"
  /\ startShots = 1
  /\ reply = NoReply
  /\ ~timerActive
  /\ lastUpdateTime # Epoch
  /\ manager.lastUpdate = 0

-----------------------------------------------------------------------------
(* Polling goes on *)

\* A network is selected and a status or a whazzup URL is configured
UrlConfigured ==
  /\ opts.network # "ONLINE_NONE"
  /\ (opts.statusUrl # "" \/ opts.whazzupUrl # "")

\* A cycle under the current options has ended: by a completion or by a failure
CycleEnded == lastUpdateTime # Epoch \/ statusMessage.kind = "failed"

\* C30: polling never halts: with a network and a status or whazzup URL
\* configured, after every cycle end (accepted, stale, without URL, failed) a new
\* cycle is started in the end: whenever currentState = NONE the re-poll timer
\* is running or a failure retry is pending.
C30_PollingGoesOn ==
  (UrlConfigured /\ CycleEnded /\ currentState = NONE)
    => (timerActive \/ retryShots > 0)

-----------------------------------------------------------------------------
(* Starts without a URL *)

\* No network is selected, or neither a status nor a whazzup URL can be resolved
NothingToFetch ==
  \/ opts.network = "ONLINE_NONE"
  \/ (opts.statusUrl = "" /\ opts.whazzupUrl = "" /\ manager.whazzupUrl = "")

\* C31: with ONLINE_NONE or without a status or whazzup URL to resolve,
\* startDownloadInternal from NONE issues no fetch, leaves currentState = NONE,
\* reports no error and stops the re-poll timer.
C31_NothingToFetchIsSilent ==
  [][ (currentState = NONE /\ reply = NoReply /\ NothingToFetch /\ StartCall)
      => /\ currentState' = NONE
         /\ startShots' = startShots
         /\ reply' = NoReply
         /\ ~timerActive'
         /\ emitted' = <<>>
         /\ statusMessage' = statusMessage ]_vars

-----------------------------------------------------------------------------
(* SSL errors: the specification of a cycle in which the downloader reports *)
(* SSL errors for the request in flight                                     *)

\* HttpDownloader::downloadSslErrors is emitted for the request in flight
DownloadSslErrors ==
  /\ reply # NoReply
  /\ \E result \in {Yes, Cancel} : Step(downloadSslErrors(Cur, result))

SslNext ==
  \/ StartProcessing
  \/ TimerTimeout
  \/ StartDownload
  \/ DownloadFinished
  \/ DownloadFailed
  \/ UserAirspacesUpdated
  \/ GetAircraft
  \/ DownloadSslErrors

SslSpec == Init /\ [][SslNext]_vars

-----------------------------------------------------------------------------
(* URLs of the fetches *)

\* A handler called startDownloader: a fetch is issued
FetchIssued == startShots' > startShots

\* C33: every fetch the state machine issues has a non-empty URL, the
\* whazzup fetch that follows a transceiver fetch included.
C33_FetchHasUrl ==
  [][ FetchIssued => downloaderUrl' # "" ]_vars

-----------------------------------------------------------------------------
(* Stages of one cycle: the specification of the chain under one           *)
(* configuration with a status URL, for every format and every status      *)
(* document, with the stages of the running cycle kept as history          *)

Formats ==
  {"ONLINE_FORMAT_VATSIM", "ONLINE_FORMAT_VATSIM_JSON", "ONLINE_FORMAT_IVAO",
   "ONLINE_FORMAT_IVAO_JSON"}

\* A custom network with status file: the user picks the format
ChainOptions ==
  { Option("ONLINE_CUSTOM_STATUS", f, "status", "", "transceivers", 0 - 1, 0 - 1,
           Display(0 - 1, 0 - 1)) : f \in Formats }

ChainInit ==
  /\ currentState = NONE
  /\ whazzupUrlFromStatus = ""
  /\ lastUpdateTime = Epoch
  /\ lastUpdateTimeTransceivers = InvalidTime
  /\ lastServerDownload = Epoch
  /\ clientCallsignAndPosMap = {}
  /\ aircraftCache = EmptyCache
  /\ simulatorAiRegistrations = {}
  /\ simulatorAiOrder = <<>>
  /\ timerActive = FALSE
  /\ timerInterval = 0
  /\ downloaderUrl = ""
  /\ reply = NoReply
  /\ startShots = 0
  /\ retryShots = 0
  /\ retryDelay = 0
  /\ opts \in ChainOptions
  /\ manager = updateAtcSizes([manager |-> EmptyManager, opts |-> opts]).manager
  /\ now = StartTime
  /\ statusMessage = [kind |-> "", url |-> "", error |-> ""]
  /\ queryResult = NoResult
  /\ ignoreSslErrors = FALSE
  /\ visited = {}
  /\ db = DatabaseManagerInit("FSX", "NAVDATABASE_MIXED")
  /\ emitted = <<>>

\* The history after a handler: a cycle ends when currentState is NONE
Visit(c) ==
  [c EXCEPT !.visited = IF c.currentState = NONE THEN {} ELSE @ \cup {c.currentState}]

ChainStartProcessing == Step(Visit(startProcessing(Cur)))

ChainTimerTimeout ==
  /\ timerActive
  /\ Step(Visit(startDownloadInternal(Cur)))

ChainRetryTimeout ==
  /\ retryShots > 0
  /\ Step(Visit(startProcessing([Cur EXCEPT !.retryShots = @ - 1])))

ChainDownloadFinished ==
  /\ reply \notin {NoReply, ""}
  /\ \E data \in Payloads(currentState) :
       Step(Visit(downloadFinished([Cur EXCEPT !.reply = NoReply], data)))

ChainDownloadFailed ==
  /\ reply # NoReply
  /\ \E error \in Errors :
       Step(Visit(downloadFailed([Cur EXCEPT !.reply = NoReply], error, reply)))

ChainNext ==
  \/ ChainStartProcessing
  \/ ChainTimerTimeout
  \/ ChainRetryTimeout
  \/ StartDownload
  \/ ChainDownloadFinished
  \/ ChainDownloadFailed
  \/ Tick

ChainSpec == ChainInit /\ [][ChainNext]_vars

\* C34: within one cycle the transceiver stage and the servers stage are
\* mutually exclusive: a chain that visited DOWNLOADING_TRANSCEIVERS never
\* visits DOWNLOADING_WHAZZUP_SERVERS, for every combination of the status
\* document's JSON flag and the configured format.
C34_TransceiversExcludeServers ==
  ~({DOWNLOADING_TRANSCEIVERS, DOWNLOADING_WHAZZUP_SERVERS} \subseteq visited)

-----------------------------------------------------------------------------
(* Completions and the stage they are delivered to *)

\* The URLs the handlers give the downloader for a stage
StageUrls(state) ==
  CASE state = DOWNLOADING_STATUS -> {opts.statusUrl}
    [] state = DOWNLOADING_TRANSCEIVERS -> {opts.transceiverUrl}
    [] state = DOWNLOADING_WHAZZUP -> {whazzupUrlFromStatus, opts.whazzupUrl}
    [] state = DOWNLOADING_WHAZZUP_SERVERS -> {manager.voiceUrl}
    [] OTHER -> {}

\* C35: a completion delivered while currentState = NONE changes nothing (no
\* parser call, no state change, no timer start, no notification), and a
\* payload is only ingested by the parser of the stage whose URL was fetched.
C35_CompletionMeetsItsStage ==
  [][ DownloadFinished
      => IF currentState = NONE
         THEN /\ emitted' = <<>>
              /\ UNCHANGED <<currentState, manager, whazzupUrlFromStatus, lastUpdateTime,
                             lastUpdateTimeTransceivers, lastServerDownload,
                             clientCallsignAndPosMap, aircraftCache,
                             simulatorAiRegistrations, timerActive, timerInterval,
                             downloaderUrl, startShots, retryShots, statusMessage>>
         ELSE reply \in StageUrls(currentState) ]_vars

-----------------------------------------------------------------------------
(* Aircraft without registration: getAircraft and filterOnlineShadowAircraft *)
(* on inputs in which online records and simulator aircraft have none       *)

\* Client tables with a record without registration
DedupClientTables ==
  { {<<"", 0>>, <<"N2", 1>>},
    {<<"", 1>>, <<"N1", 0>>, <<"N2", 0>>} }

DedupOnlineLists ==
  { << OnlineAircraft("", 0), OnlineAircraft("N2", 0) >>,
    << OnlineAircraft("N2", 1), OnlineAircraft("", 1), OnlineAircraft("", 0) >> }

\* Simulator aircraft lists with shadows without registration
DedupSimLists ==
  { << SimAircraft("", 0, TRUE), SimAircraft("N2", 0, TRUE) >>,
    << SimAircraft("", 1, TRUE) >>,
    << SimAircraft("N2", 1, TRUE), SimAircraft("", 0, FALSE) >> }

DedupInit ==
  /\ currentState = NONE
  /\ whazzupUrlFromStatus = ""
  /\ lastUpdateTime = Epoch
  /\ lastUpdateTimeTransceivers = InvalidTime
  /\ lastServerDownload = Epoch
  /\ aircraftCache = EmptyCache
  /\ simulatorAiRegistrations = {}
  /\ simulatorAiOrder = <<>>
  /\ timerActive = FALSE
  /\ timerInterval = 0
  /\ downloaderUrl = ""
  /\ reply = NoReply
  /\ startShots = 0
  /\ retryShots = 0
  /\ retryDelay = 0
  /\ opts \in {o \in Options : o.network = "ONLINE_VATSIM"}
  /\ \E clients \in DedupClientTables :
       /\ manager = [updateAtcSizes([manager |-> EmptyManager, opts |-> opts]).manager
                      EXCEPT !.clients = clients, !.lastUpdate = 1]
       /\ clientCallsignAndPosMap = clients
  /\ now = StartTime
  /\ statusMessage = [kind |-> "", url |-> "", error |-> ""]
  /\ queryResult = NoResult
  /\ ignoreSslErrors = FALSE
  /\ visited = {}
  /\ db = DatabaseManagerInit("FSX", "NAVDATABASE_MIXED")
  /\ emitted = <<>>

DedupFilter ==
  \E onlineAircraft \in DedupOnlineLists, simAircraft \in DedupSimLists :
    FilterOnlineShadowAircraft(onlineAircraft, simAircraft)

DedupNext == AircraftQuery \/ AircraftStop \/ DedupFilter

DedupSpec == DedupInit /\ [][DedupNext]_vars

WithoutRegistration(aircraft) == aircraft.reg = ""

\* C36: the empty registration is never a deduplication key: it is never a key
\* of simulatorAiRegistrations, a fill of the cache takes every online record
\* without registration inside the rectangle, and filterOnlineShadowAircraft
\* removes no online aircraft without registration.
C36_EmptyRegistrationIsNoKey ==
  [][ /\ ~Contains(simulatorAiRegistrations', "")
      /\ (aircraftCache.list = {} /\ queryResult' = queryResult)
         => \A rect \in AircraftRects, sim \in AircraftSims, layout \in BOOLEAN :
              Query(rect, FALSE, sim, layout)
              => \A cl \in manager.clients :
                   (cl[1] = "" /\ cl[2] <= rect) => cl \in aircraftCache'.list
      /\ \A onlineAircraft \in DedupOnlineLists, simAircraft \in DedupSimLists :
           FilterOnlineShadowAircraft(onlineAircraft, simAircraft)
           => SelectSeq(queryResult'.onlineAircraft, WithoutRegistration)
                = SelectSeq(onlineAircraft, WithoutRegistration) ]_vars

\* A filter call returned aircraft without registration while the cache holds
\* the online record without registration at position 0, filled by a query
\* whose user aircraft had no registration (N2 is the first one inserted) and
\* whose AI aircraft N2 is at that position
C36_Witness ==
  /\ queryResult.op = "filterOnlineShadowAircraft"
  /\ \E i \in 1 .. Len(queryResult.onlineAircraft) : queryResult.onlineAircraft[i].reg = ""
  /\ <<"", 0>> \in aircraftCache.list
  /\ simulatorAiOrder = <<"N2">>
  /\ simulatorAiRegistrations = {<<"N2", 0>>}

-----------------------------------------------------------------------------
(* Lazy and filling calls of getAircraft *)

\* The call certainly finds the list empty: it is empty already, the cached
\* rectangle does not cover the queried one, or the keys differ
FindsListEmpty(rect, sim) ==
  \/ aircraftCache.list = {}
  \/ ~CacheCovers(rect, FALSE)
  \/ Keys(simulatorAiRegistrations) # Keys(curRegistrations(sim))

\* C37: a lazy getAircraft never fills the cache and never changes
\* simulatorAiRegistrations, it can only clear the cache;
\* simulatorAiRegistrations is replaced by the current registrations exactly
\* when a non-lazy call finds the list empty and fills it.
C37_RegistrationsFollowTheFill ==
  [][ \A rect \in AircraftRects, lazy \in BOOLEAN, sim \in AircraftSims, layout \in BOOLEAN :
        Query(rect, lazy, sim, layout)
        => IF lazy
           THEN /\ simulatorAiRegistrations' = simulatorAiRegistrations
                /\ aircraftCache' \in {aircraftCache, EmptyCache}
           ELSE \/ /\ simulatorAiRegistrations' = curRegistrations(sim)
                   /\ aircraftCache'.list = fillAircraft(Cur, rect, curRegistrations(sim))
                \/ /\ ~FindsListEmpty(rect, sim)
                   /\ simulatorAiRegistrations' = simulatorAiRegistrations
                   /\ aircraftCache' = aircraftCache ]_vars

\* A lazy call cleared the cache and left the registrations: the cache is empty
\* although a fill under the registrations remembered (N1 at 0 alone) takes N2
\* at 1 from the client table for every rectangle
C37_Witness ==
  /\ aircraftCache = EmptyCache
  /\ simulatorAiRegistrations = {<<"N1", 0>>}
  /\ <<"N2", 1>> \in manager.clients

-----------------------------------------------------------------------------
(* The events of the DatabaseManager *)

\* One event of the DatabaseManager
DbStep(d) == Set([Cur EXCEPT !.db = d])

DbInit ==
  /\ currentState = NONE
  /\ whazzupUrlFromStatus = ""
  /\ lastUpdateTime = Epoch
  /\ lastUpdateTimeTransceivers = InvalidTime
  /\ lastServerDownload = Epoch
  /\ clientCallsignAndPosMap = {}
  /\ aircraftCache = EmptyCache
  /\ simulatorAiRegistrations = {}
  /\ simulatorAiOrder = <<>>
  /\ timerActive = FALSE
  /\ timerInterval = 0
  /\ downloaderUrl = ""
  /\ reply = NoReply
  /\ startShots = 0
  /\ retryShots = 0
  /\ retryDelay = 0
  /\ opts \in {o \in Options : o.network = "ONLINE_NONE"}
  /\ manager = updateAtcSizes([manager |-> EmptyManager, opts |-> opts]).manager
  /\ now = StartTime
  /\ statusMessage = [kind |-> "", url |-> "", error |-> ""]
  /\ queryResult = NoResult
  /\ ignoreSslErrors = FALSE
  /\ visited = {}
  /\ \E type \in SimTypes, status \in NavStatuses : db = DatabaseManagerInit(type, status)
  /\ emitted = <<>>

\* The menus are blocked while the loading dialog or a warning is open
MenuEnabled == ~db.running /\ db.warnings = 0

\* The user picks an entry of the Navigraph menu
SwitchNavFromMainMenu ==
  /\ MenuEnabled
  /\ \E action \in NavStatuses :
       DbStep(switchNavFromMainMenu([db EXCEPT !.checked = action, !.log = <<>>]))

\* The user picks a simulator in the menu
SwitchSimFromMainMenu ==
  /\ MenuEnabled
  /\ \E action \in SimTypes \cup {"null"} :
       DbStep(switchSimFromMainMenu([db EXCEPT !.log = <<>>], action))

RunTurn(retval, selected, configValid, loadOk, flags, removeOk, renameOk, result) ==
  /\ db.warnings = 0
  /\ (retval = QDialogAccepted /\ configValid) => db.loads < MaxLoads
  /\ DbStep(run(db, retval, selected, configValid, loadOk, flags, removeOk, renameOk, result))

\* The user opens the loading dialog, or answers it when it is shown again
Run ==
  \E retval \in {QDialogAccepted, QDialogRejected}, selected \in SimTypes,
     configValid \in BOOLEAN, loadOk \in BOOLEAN,
     flags \in SUBSET {COMPILE_ABORTED, COMPILE_MSFS_NAVIGRAPH_FOUND},
     removeOk \in BOOLEAN, renameOk \in BOOLEAN, result \in {Yes, No} :
    RunTurn(retval, selected, configValid, loadOk, flags, removeOk, renameOk, result)

\* Another program writes the file of an open database
FileModified ==
  \E h \in {"databaseSim", "databaseNav"} :
    /\ h \notin db.modified
    /\ DbStep([db EXCEPT !.modified = @ \cup {h}, !.log = <<>>])

\* The application state changes and the main window calls the check; with a
\* warning open this is an invocation from the event loop of the warning
CheckForChangedNavAndSimDatabases ==
  /\ db.warnings < MaxWarnings
  /\ \E active \in BOOLEAN :
       DbStep(checkForChangedNavAndSimDatabases([db EXCEPT !.log = <<>>], active))

\* The user closes the warning opened last
WarningClosed ==
  /\ db.warnings > 0
  /\ DbStep(warningClosed([db EXCEPT !.log = <<>>]))

DbNext ==
  \/ SwitchNavFromMainMenu
  \/ SwitchSimFromMainMenu
  \/ Run
  \/ FileModified
  \/ CheckForChangedNavAndSimDatabases
  \/ WarningClosed

DbSpec == DbInit /\ [][DbNext]_vars

\* The log without the lines about the temporary database
SwitchEvents ==
  {"preDatabaseLoad", "Closing database", "QFile::remove", "QFile::rename", "select",
   "Opening database", "postDatabaseLoad"}

\* The steps of database switches in the log, without those about the temporary
\* database
IsMainEvent(e) == e.ev \in SwitchEvents /\ e.arg # buildCompilingDatabaseFileName
MainLog == SelectSeq(db.log, IsMainEvent)

\* What may come directly after an event of a database switch
MayFollow(a, b) ==
  CASE a = "preDatabaseLoad" -> b \in {"Closing database"}
    [] a = "Closing database" -> b \in {"Closing database", "QFile::remove", "select"}
    [] a = "QFile::remove" -> b = "QFile::rename"
    [] a = "QFile::rename" -> b = "select"
    [] a = "select" -> b = "Opening database"
    [] a = "Opening database" -> b \in {"Opening database", "postDatabaseLoad"}
    [] a = "postDatabaseLoad" -> b = "preDatabaseLoad"
    [] OTHER -> FALSE

\* C38: every database switch goes preDatabaseLoad, databases closed, selection
\* changed, databases reopened, postDatabaseLoad; the selection never changes
\* while a database is open, every preDatabaseLoad is followed by exactly one
\* postDatabaseLoad, and between the handlers the databases are open.
C38_SwitchOrder ==
  LET log == MainLog
      switching == \E i \in 1 .. Len(log) : log[i].ev \in SwitchEvents
  IN /\ switching
        => /\ log[1].ev = "preDatabaseLoad"
           /\ log[Len(log)].ev = "postDatabaseLoad"
           /\ \A i \in 1 .. Len(log) - 1 : MayFollow(log[i].ev, log[i + 1].ev)
           /\ \A i \in 1 .. Len(log) : log[i].ev = "select" => ~log[i].open
      /\ \A h \in HandleNames : db.open[h] # Closed

\* A loading that was followed by the correction of the scenery library mode:
\* two switches in one handler, the first to MSFS, the second to its mode
C38_Witness ==
  /\ Len(MainLog) > 0
  /\ Cardinality({i \in 1 .. Len(MainLog) : MainLog[i].ev = "postDatabaseLoad"}) = 2
  /\ db.currentFsType = "MSFS"
  /\ db.navDatabaseStatus = "NAVDATABASE_OFF"
  /\ db.files["MSFS"] > EmptySchema

\* The old database file is removed in this log only with all databases closed,
\* after loadScenery returned true and preDatabaseLoad was emitted
RemovedAfterLoad(log, file) ==
  \A i \in 1 .. Len(log) :
    (log[i].ev = "QFile::remove" /\ log[i].arg = file)
    => /\ ~log[i].open
       /\ \E j \in 1 .. i - 1 : log[j].ev = "loadScenery returns" /\ log[j].arg = "true"
       /\ \E j \in 1 .. i - 1 : log[j].ev = "preDatabaseLoad"

\* loadScenery was called for the temporary database and for no other
LoadedIntoTemp(log) ==
  /\ \E i \in 1 .. Len(log) : log[i].ev = "loadScenery"
  /\ \A i \in 1 .. Len(log) : log[i].ev = "loadScenery" => log[i].arg = tempDb

\* The log is one of run(): it starts with the loading dialog
RunLogged(log) == Len(log) > 0 /\ log[1].ev = "databaseDialog->exec"

\* loadScenery returned true in this log
LoadSucceeded(log) == \E i \in 1 .. Len(log) : log[i].ev = "loadScenery returns" /\ log[i].arg = "true"

\* C39: runInternal compiles into a temporary file; the file of the selected
\* simulator is removed and replaced only after loadScenery succeeded and all
\* databases were closed; after a failed or cancelled loading, an invalid
\* configuration or a closed dialog the database files, currentFsType and the
\* open databases are as before and only the temporary file is removed.
C39_ReplacedOnlyAfterLoad ==
  [][ RunLogged(db'.log)
      => IF LoadSucceeded(db'.log)
         THEN /\ LoadedIntoTemp(db'.log)
              /\ RemovedAfterLoad(db'.log, buildDatabaseFileName(db'.selectedFsType))
              /\ \A f \in FileNames \ {buildDatabaseFileName(db'.selectedFsType)} :
                   db'.files[f] \in {db.files[f], EmptySchema}
              /\ db'.files[buildDatabaseFileName(db'.selectedFsType)] \in {db.files[buildDatabaseFileName(db'.selectedFsType)], EmptySchema, db'.loads}
              /\ db'.currentFsType = db'.selectedFsType
         ELSE /\ db'.files = db.files
              /\ db'.currentFsType = db.currentFsType
              /\ db'.navDatabaseStatus = db.navDatabaseStatus
              /\ db'.open = db.open
              /\ \A i \in 1 .. Len(db'.log) :
                   db'.log[i].ev = "QFile::remove" => db'.log[i].arg = buildCompilingDatabaseFileName
              /\ (\E i \in 1 .. Len(db'.log) : db'.log[i].ev = "loadScenery")
                 => LoadedIntoTemp(db'.log) /\ db'.temp = NoFile ]_vars

\* The second compilation replaced the database of MSFS after the first one had
\* failed and left every database file as it was
C39_Witness ==
  /\ db.loads = 2
  /\ db.files = [f \in FileNames |-> IF f = "MSFS" THEN 2 ELSE EmptySchema]
  /\ db.temp = NoFile
  /\ db.currentFsType = "MSFS"

\* C40: checkForChangedNavAndSimDatabases is guarded against re-entry: an
\* invocation while the warning is shown opens no second warning, the flag is
\* released when the outer invocation returns, so at most one warning is open
\* at any time and a later check is not blocked.
C40_OneWarningAtATime ==
  /\ db.warnings <= 1
  /\ db.showingDatabaseChangeWarning = (db.warnings = 1)

\* An invocation from the event loop of the open warning returned at the guard
C40_Witness ==
  /\ db.warnings = 1
  /\ db.showingDatabaseChangeWarning
  /\ db.log = <<[ev |-> "checkForChangedNavAndSimDatabases", arg |-> "guarded", open |-> TRUE]>>
  /\ db.modified = {"databaseSim", "databaseNav"}

====
